---- MODULE Spec2Model ----
(***************************************************************************)
(* FreeCAD MCP bridge: the XML-RPC endpoint (FreeCADRPC), the GUI task     *)
(* queue drained by process_gui_tasks, the property applier                *)
(* (set_object_property) and the *_gui task bodies, modelled from          *)
(* addon/FreeCADMCP/rpc_server/rpc_server.py.                              *)
(*                                                                         *)
(* Two contexts run the code: the server thread started by                 *)
(* start_rpc_server (serve_forever, one request at a time) and the GUI     *)
(* thread, whose event loop runs the start/stop commands and the           *)
(* QTimer.singleShot callbacks of process_gui_tasks one at a time.         *)
(***************************************************************************)
EXTENDS Integers, Sequences, FiniteSets, TLC

\* ------------------------------------------------------------------ bounds
\* number of remote calls the model lets the server accept
MaxCalls == 3
\* number of successful start_rpc_server calls (each arms one poll chain)
MaxStarts == 2
\* number of get_freecad_connection calls the tool layer makes
MaxToolCalls == 3

\* ------------------------------------------------------------------- state
VARIABLES
    rpc_server_instance,  \* TRUE while the global holds a server
    rpc_server_thread,    \* "none" | "serving": the thread in serve_forever
    shutdown_request,     \* the server's shutdown flag, set by shutdown()
    rpc_request_queue,    \* sequence of tasks [id, req]
    rpc_response_queue,   \* sequence of results [id, res]
    calls,                \* calls[i]: the i-th remote call accepted by the server
    polls,                \* polls[k]: the chain of process_gui_tasks timers armed by the k-th start
    gui,                  \* "idle" | "stopping": the command the GUI thread is in
    gui_msg,              \* what the last start/stop command returned
    docs,                 \* the kernel's open documents, by name
    active,               \* FreeCADGui.ActiveDocument, "" when there is none
    getDocumentRaises,    \* whether getDocument raises on an unknown name or returns None
    submit_log,           \* ids of the tasks in the order they were put on the request queue
    run_log,              \* ids of the tasks in the order their bodies ran
    faults,               \* ids of the tasks whose body raised
    last,                 \* the task body that ran last: its id, the documents before it, its outcome
    parts_lib_path,       \* the parts_library directory on disk: whether it exists and its files
    get_parts_list_cache, \* what functools.cache holds for get_parts_list
    pure_call,            \* a direct application of a function of the codec or of the applier: its argument and what it returned
    _freecad_connection,  \* the tool layer's global connection, None when unset
    tool_calls            \* the get_freecad_connection calls of the tool layer so far: what each returned or that it raised

vars == <<rpc_server_instance, rpc_server_thread, shutdown_request,
          rpc_request_queue, rpc_response_queue, calls, polls, gui,
          gui_msg, docs, active, getDocumentRaises, _freecad_connection, tool_calls, submit_log, run_log,
          faults, last, parts_lib_path, get_parts_list_cache, pure_call>>

\* ------------------------------------------------------------ wire values
Num(n) == [kind |-> "num", n |-> n]
Str(s) == [kind |-> "str", s |-> s]
Ref(s) == [kind |-> "ref", s |-> s]
NoneV  == [kind |-> "none"]
Bool(b) == [kind |-> "bool", b |-> b]
\* a dict and a list as XML-RPC carries them
Dict(m) == [kind |-> "dict", m |-> m]
\* a mapping whose keys come in the order the request wrote them
Ordered(pairs) ==
    [kind |-> "dict",
     m    |-> [k \in {pairs[i][1] : i \in DOMAIN pairs} |->
                 pairs[CHOOSE i \in DOMAIN pairs :
                          /\ pairs[i][1] = k
                          /\ \A j \in DOMAIN pairs : pairs[j][1] = k => j <= i][2]],
     keys |-> pairs]
List(items) == [kind |-> "list", items |-> items]
EmptyDict == Dict([k \in {} |-> NoneV])
XYZ(x, y, z) == Dict([k \in {"x", "y", "z"} |->
                        IF k = "x" THEN Num(x) ELSE IF k = "y" THEN Num(y) ELSE Num(z)])

\* val.get(key, default): val[key] when val is a dict that has the key, the
\* default when it is a dict without it; a value that is no dict has no get
IsDict(val) == val.kind = "dict"
Get(val, key, default) == IF key \in DOMAIN val.m THEN val.m[key] ELSE default

\* ------------------------------------------------------------ kernel values
\* FreeCAD.Vector, FreeCAD.Rotation, FreeCAD.Placement and App.Color; an
\* angle is a fixed-point number with three decimals: 90000 is 90.000
Vector(x, y, z) == [kind |-> "vector", x |-> x, y |-> y, z |-> z]
Color(r, g, b, a) == [kind |-> "color", rgba |-> <<r, g, b, a>>]

Sign(n) == IF n > 0 THEN 1 ELSE IF n < 0 THEN -1 ELSE 0
\* the unit vector of an axis-parallel vector (the axes used here are
\* parallel to x, y or z); the null vector has no direction
Normalize(v) == Vector(Sign(v.x), Sign(v.y), Sign(v.z))
Negative(v) == Vector(-v.x, -v.y, -v.z)

FullTurn == 360000
\* Base::toRadians, with 355/113 for pi
toRadians(deg) == (deg * 355) \div (113 * 180)

\* FreeCAD.Rotation(axis, angle): the angle is taken in degrees. The kernel
\* keeps a quaternion, which reads back as a unit axis and an angle between
\* 0 and 180 degrees; the identity reads back with the axis (0, 0, 1)
Rotation(axis, angle) ==
    LET a == angle % FullTurn
        null == axis.x = 0 /\ axis.y = 0 /\ axis.z = 0
    IN  IF a = 0 \/ null
        THEN [kind |-> "rotation", axis |-> Vector(0, 0, 1), degrees |-> 0]
        ELSE IF 2 * a > FullTurn
        THEN [kind |-> "rotation", axis |-> Negative(Normalize(axis)),
              degrees |-> FullTurn - a]
        ELSE [kind |-> "rotation", axis |-> Normalize(axis), degrees |-> a]

\* the attributes Rotation.Axis and Rotation.Angle; Angle is in radians
Axis(rot) == rot.axis
Angle(rot) == toRadians(rot.degrees)

Placement(base, rot) == [kind |-> "placement", Base |-> base, Rotation |-> rot]

\* ------------------------------------------------------- kernel collaborator
\* names the kernel hands out, in the order it tries them when the requested
\* name is taken
DocNameSeq == <<"Doc", "Doc1", "Doc2", "Doc3", "Doc4", "Doc5">>
ObjNameSeq == <<"Box", "Box001", "Box002", "Box003", "Box004", "Box005">>

RECURSIVE FirstFree(_, _)
FirstFree(names, taken) ==
    IF names = <<>> THEN "<exhausted>"
    ELSE IF Head(names) \notin taken THEN Head(names)
    ELSE FirstFree(Tail(names), taken)

\* newDocument / addObject never reuse a name: a taken name is replaced by
\* the next name after it that is free
RECURSIVE UniqueName(_, _, _)
UniqueName(name, names, taken) ==
    IF name \notin taken THEN name
    ELSE IF names = <<>> THEN "<exhausted>"
    ELSE IF Head(names) = name THEN FirstFree(Tail(names), taken)
    ELSE UniqueName(name, Tail(names), taken)

\* a length as the kernel holds it: a number with a unit
Quantity(n) == [kind |-> "quantity", n |-> n]

\* obj.PropertiesList with the default values of a fresh object
DefaultProps(type) ==
    CASE type = "Part::Box" ->
            [p \in {"Length", "Height", "Label2", "Placement"} |->
                CASE p = "Label2" -> Str("")
                  [] p = "Placement" ->
                        Placement(Vector(0, 0, 0), Rotation(Vector(0, 0, 1), 0))
                  [] OTHER -> Quantity(10)]
      [] type = "Part::Cut" -> [p \in {"Base", "Tool"} |-> NoneV]
      [] type = "Part::Mirroring" ->
            [p \in {"Source", "Base", "Normal"} |->
                CASE p = "Source" -> NoneV
                  [] p = "Base" -> Vector(0, 0, 0)
                  [] OTHER -> Vector(0, 0, 1)]
      [] type = "Fem::AnalysisPython" -> [p \in {"Group"} |-> List(<<>>)]
      [] type = "Fem::FemMeshGmsh" ->
            [p \in {"Part", "CharacteristicLengthMax"} |->
                IF p = "Part" THEN NoneV ELSE Quantity(0)]
      [] type = "Fem::ConstraintFixed" ->
            [p \in {"References", "Scale"} |->
                IF p = "References" THEN List(<<>>) ELSE Num(1)]
      [] type = "Fem::MaterialCommon" ->
            [p \in {"References", "Category"} |->
                IF p = "References" THEN List(<<>>) ELSE Str("Solid")]
      [] OTHER -> [p \in {} |-> NoneV]

\* the types doc.addObject knows
KnownTypes == {"Part::Box", "Part::Cut", "Part::Mirroring"}

\* obj.ViewObject of a fresh object: the display properties of its view
\* provider; a colour component is held in hundredths
DefaultView ==
    [p \in {"ShapeColor", "Transparency", "Visibility"} |->
        CASE p = "ShapeColor"   -> Color(80, 80, 80, 0)
          [] p = "Transparency" -> Num(0)
          [] OTHER              -> Bool(TRUE)]

NewObject(type) ==
    [TypeId |-> type, props |-> DefaultProps(type), ViewObject |-> DefaultView]

PropertiesList(obj) == DOMAIN obj.props

\* setattr(obj, prop, val) as the kernel types it, by the kind of the
\* property: a length takes a number and keeps it as a quantity, a number, a
\* string, a vector, a placement and a list take their own kind, a link takes
\* an object or None; anything else is rejected
KernelAccepts(obj, prop, val) ==
    /\ prop \in PropertiesList(obj)
    /\ LET current == obj.props[prop].kind
       IN  \/ current = "quantity" /\ val.kind = "num"
           \/ current \in {"num", "str", "vector", "placement", "list"} /\ val.kind = current
           \/ current \in {"ref", "none"} /\ val.kind \in {"ref", "none"}

\* setattr(obj.ViewObject, k, v): a colour takes a tuple of three or four
\* floats, a number or a flag takes its own kind
ViewAccepts(view, k, v) ==
    /\ k \in DOMAIN view
    /\ \/ view[k].kind = "color" /\ v.kind = "tuple" /\ Len(v.items) \in {3, 4}
       \/ view[k].kind \in {"num", "bool"} /\ v.kind = view[k].kind

\* the value the display property holds after an accepted setattr: a colour
\* given without alpha gets the kernel's alpha
ViewStored(view, k, v) ==
    IF view[k].kind = "color"
    THEN Color(v.items[1], v.items[2], v.items[3],
               IF Len(v.items) = 4 THEN v.items[4] ELSE 0)
    ELSE v

\* the value the property holds after an accepted setattr
Stored(obj, prop, val) ==
    IF obj.props[prop].kind = "quantity" THEN Quantity(val.n) ELSE val

\* ------------------------------------------------------------ serialize.py
\* a fallback that hands the value back as it is
Repr_passthrough(value) == value

\* str(value) of a value the codec knows no encoding for: a length reads as
\* its number and unit, None as "None", a document object as its type tag
Repr(value) ==
    CASE value.kind = "quantity" -> [kind |-> "str", s |-> "<n> mm", n |-> value.n]
      [] value.kind = "none"     -> Str("None")
      [] OTHER                   -> Str("<object>")

RECURSIVE serialize_value(_)
serialize_value(value) ==
    IF value.kind \in {"num", "str", "bool"} THEN value
    ELSE IF value.kind = "vector" THEN XYZ(value.x, value.y, value.z)
    ELSE IF value.kind = "rotation"
    THEN Dict([k \in {"Axis", "Angle"} |->
                 IF k = "Axis"
                 THEN XYZ(Axis(value).x, Axis(value).y, Axis(value).z)
                 ELSE Num(Angle(value))])
    ELSE IF value.kind = "placement"
    THEN Dict([k \in {"Base", "Rotation"} |->
                 IF k = "Base" THEN serialize_value(value.Base)
                 ELSE serialize_value(value.Rotation)])
    ELSE IF value.kind = "list"
    THEN List([i \in DOMAIN value.items |-> serialize_value(value.items[i])])
    ELSE IF value.kind = "color"
    THEN List([i \in DOMAIN value.rgba |-> Num(value.rgba[i])])
    ELSE Repr(value)

\* the mapping serialize_object returns for a document object: its name,
\* its type and every property of PropertiesList through serialize_value
serialize_object(objs, name) ==
    [Name |-> name,
     TypeId |-> objs[name].TypeId,
     Properties |-> [p \in PropertiesList(objs[name]) |->
                        serialize_value(objs[name].props[p])]]

\* ---------------------------------------------------------------- exceptions
NoExc == [kind |-> "none", prop |-> "", who |-> ""]
Exc(kind, prop, who) == [kind |-> kind, prop |-> prop, who |-> who]

\* ------------------------------------------------------- set_object_property
RefSlots == {"Base", "Tool", "Source", "Profile"}

\* the numbers of a mapping with the keys x, y and z, a missing key read as
\* the default; FreeCAD.Vector takes numbers only
IsXYZ(val) ==
    /\ IsDict(val)
    /\ \A k \in DOMAIN val.m \cap {"x", "y", "z"} : val.m[k].kind = "num"

\* a vector whose missing z is read as 1, the default of the rotation axis
VectorOf_axis_default(val, dx, dy, dz) ==
    Vector(Get(val, "x", Num(0)).n, Get(val, "y", Num(0)).n, Get(val, "z", Num(1)).n)

VectorOf(val, dx, dy, dz) ==
    Vector(Get(val, "x", Num(dx)).n, Get(val, "y", Num(dy)).n, Get(val, "z", Num(dz)).n)

\* lines 60-72: the Placement built from a mapping; the position is under
\* Base or, without Base, under Position
PlacementPos(val) == Get(val, "Base", Get(val, "Position", EmptyDict))
PlacementRot(val) == Get(val, "Rotation", EmptyDict)
PlacementAxis(val) == Get(PlacementRot(val), "Axis", EmptyDict)
PlacementAngle(val) == Get(PlacementRot(val), "Angle", Num(0))
IsPlacementMapping(val) ==
    /\ IsXYZ(PlacementPos(val))
    /\ IsDict(PlacementRot(val))
    /\ IsXYZ(PlacementAxis(val))
    /\ PlacementAngle(val).kind = "num"
PlacementOf(val) ==
    Placement(VectorOf(PlacementPos(val), 0, 0, 0),
              Rotation(VectorOf(PlacementAxis(val), 0, 0, 1), PlacementAngle(val).n))

\* lines 84-91: the (object, face) pairs of a reference list, and the first
\* name in it that is no object of the document
IsRefList(val) ==
    /\ val.kind = "list"
    /\ \A i \in DOMAIN val.items :
          /\ val.items[i].kind = "list"
          /\ Len(val.items[i].items) = 2
          /\ val.items[i].items[1].kind = "str"
Unresolved(objs, val) ==
    {i \in DOMAIN val.items : val.items[i].items[1].s \notin DOMAIN objs}
FirstUnresolved(objs, val) ==
    LET i == CHOOSE i \in Unresolved(objs, val) :
                 \A j \in Unresolved(objs, val) : i <= j
    IN  val.items[i].items[1].s
ResolveRefs(val) ==
    List([i \in DOMAIN val.items |->
            List(<<Ref(val.items[i].items[1].s), val.items[i].items[2]>>)])

\* val.items() of a request mapping, in the order the request wrote the keys
Items(val) ==
    IF "keys" \in DOMAIN val THEN val.keys
    ELSE LET n == Cardinality(DOMAIN val.m)
             order == CHOOSE f \in [1..n -> DOMAIN val.m] :
                          \A k \in DOMAIN val.m : \E i \in 1..n : f[i] = k
         IN  [i \in 1..n |-> <<order[i], val.m[order[i]]>>]

\* lines 95 and 99: tuple(float(c) for c in val); float takes a number or a
\* flag and raises on text that is no number, on a list and on a mapping
HasFloats(val) ==
    /\ val.kind = "list"
    /\ \A i \in DOMAIN val.items : val.items[i].kind \in {"num", "bool"}
Float(c) == IF c.kind = "bool" THEN (IF c.b THEN 100 ELSE 0) ELSE c.n
Floats(val) ==
    [kind |-> "tuple", items |-> [i \in DOMAIN val.items |-> Float(val.items[i])]]

\* a write that lands among the data properties of the object
SetView_data(objs, name, k, v) ==
    [objs EXCEPT ![name].props = (k :> v) @@ @]

\* setattr(obj.ViewObject, k, v): the write lands on the view provider
SetView(objs, name, k, v) ==
    [objs EXCEPT ![name].ViewObject[k] = v]

\* one setattr on obj.ViewObject for the request property prop
ViewSetattr(objs, name, prop, k, v) ==
    IF ViewAccepts(objs[name].ViewObject, k, v)
    THEN [objs |-> SetView(objs, name, k, ViewStored(objs[name].ViewObject, k, v)),
          exc  |-> NoExc]
    ELSE [objs |-> objs, exc |-> Exc("PropertyAssignError", prop, "")]

\* line 95: the ShapeColor of the view provider from a list of components
SetShapeColor(objs, name, prop, val) ==
    IF HasFloats(val)
    THEN ViewSetattr(objs, name, prop, "ShapeColor", Floats(val))
    ELSE [objs |-> objs, exc |-> Exc("PropertyAssignError", prop, "")]

\* lines 97-101: the loop over the keys of a ViewObject mapping; the keys
\* before the one that raises stay written
RECURSIVE SetViewItems(_, _, _)
SetViewItems(objs, name, items) ==
    IF items = <<>> THEN [objs |-> objs, exc |-> NoExc]
    ELSE LET k == Head(items)[1]
             v == Head(items)[2]
             r == IF k = "ShapeColor"
                  THEN SetShapeColor(objs, name, "ViewObject", v)
                  ELSE ViewSetattr(objs, name, "ViewObject", k, v)
         IN  IF r.exc # NoExc THEN r
             ELSE SetViewItems(r.objs, name, Tail(items))

\* one iteration of the loop body: objs is doc's object table, name the
\* object being written
ApplyProperty(objs, name, prop, val) ==
    LET obj == objs[name]
        set(v) == [objs |-> [objs EXCEPT ![name].props[prop] = v], exc |-> NoExc]
        fail(e) == [objs |-> objs, exc |-> e]
        setattr(v) == IF KernelAccepts(obj, prop, v)
                      THEN set(Stored(obj, prop, v))
                      ELSE fail(Exc("PropertyAssignError", prop, ""))
    IN  IF prop \in PropertiesList(obj)
        THEN IF prop = "Placement" /\ IsDict(val)
             THEN IF IsPlacementMapping(val)
                  THEN setattr(PlacementOf(val))
                  ELSE fail(Exc("PropertyAssignError", prop, ""))
             ELSE IF obj.props[prop].kind = "vector" /\ IsDict(val)
             THEN IF IsXYZ(val)
                  THEN setattr(VectorOf(val, 0, 0, 0))
                  ELSE fail(Exc("PropertyAssignError", prop, ""))
             ELSE IF prop \in RefSlots /\ val.kind = "str"
             THEN IF val.s \in DOMAIN objs
                  THEN setattr(Ref(val.s))
                  ELSE fail(Exc("ReferenceNotFound", prop, val.s))
             ELSE IF prop = "References" /\ val.kind = "list"
             THEN IF ~IsRefList(val)
                  THEN fail(Exc("PropertyAssignError", prop, ""))
                  ELSE IF Unresolved(objs, val) # {}
                  THEN fail(Exc("ReferenceNotFound", prop, FirstUnresolved(objs, val)))
                  ELSE setattr(ResolveRefs(val))
             ELSE setattr(val)
        ELSE IF prop = "ShapeColor" /\ val.kind = "list" /\ obj.ViewObject # NoneV
        THEN SetShapeColor(objs, name, prop, val)
        ELSE IF prop = "ViewObject" /\ IsDict(val) /\ obj.ViewObject # NoneV
        THEN SetViewItems(objs, name, Items(val))
        ELSE fail(Exc("PropertyAssignError", prop, ""))

RECURSIVE set_object_property(_, _, _)

\* a handler that records the failure and goes on with the rest of the mapping
PropertyAssignmentError_continue(objs, name, rest, exc) ==
    [objs |-> set_object_property(objs, name, rest).objs, exc |-> exc]

\* the except clause of the loop: the failure is re-raised as an
\* AttributeError naming the property, which ends the loop
PropertyAssignmentError(objs, name, rest, exc) ==
    [objs |-> objs, exc |-> exc]

\* returns the object table after the loop and the exception that ended it
set_object_property(objs, name, props) ==
    IF props = <<>> THEN [objs |-> objs, exc |-> NoExc]
    ELSE LET r == ApplyProperty(objs, name, Head(props)[1], Head(props)[2])
         IN  IF r.exc # NoExc
             THEN PropertyAssignmentError(r.objs, name, Tail(props), r.exc)
             ELSE set_object_property(r.objs, name, Tail(props))

\* ------------------------------------------------------------- task results
\* what a task body hands back: True, an error string, text or an image
TrueRes == [val |-> "True"]
ErrRes(via, exc) ==
    [val |-> "error", via |-> via, kind |-> exc.kind, prop |-> exc.prop,
     who |-> exc.who]
ImageRes(camera) == [val |-> "image", camera |-> camera]
EmptyStr == [val |-> "empty"]
NoRes == [val |-> "None"]

\* a body either returns res or raises exc
Returns(ds, act, res) ==
    [docs |-> ds, active |-> act, raised |-> FALSE, res |-> res, exc |-> NoExc]
Raises(ds, act, exc) ==
    [docs |-> ds, active |-> act, raised |-> TRUE, res |-> NoRes, exc |-> exc]

NewDocument == [objs |-> [n \in {} |-> NewObject("")], camera |-> "Initial"]

\* ----------------------------------------------------------------- requests
NoType == "<no Type>"
Request(op, doc, name, type, props, arg) ==
    [op |-> op, doc |-> doc, name |-> name, type |-> type, props |-> props,
     arg |-> arg]

\* ------------------------------------------------------------- task bodies
create_document_gui(ds, act, req) ==
    LET actual == UniqueName(req.doc, DocNameSeq, DOMAIN ds)
    IN  Returns([d \in DOMAIN ds \cup {actual} |->
                    IF d = actual THEN NewDocument ELSE ds[d]],
                actual, TrueRes)

\* doc.addObject(type, name): the object table with the new object in it
AddObject(objs, type, actual) ==
    [n \in DOMAIN objs \cup {actual} |->
        IF n = actual THEN NewObject(type) ELSE objs[n]]

\* the names the kernel tries for an object asked for under the given name
NameSeq(name) ==
    CASE name \in {"Mesh", "Mesh001", "Mesh002", "Mesh003"} ->
            <<"Mesh", "Mesh001", "Mesh002", "Mesh003", "Mesh004">>
      [] name \in {"Fixed", "Fixed001", "Fixed002", "Fixed003"} ->
            <<"Fixed", "Fixed001", "Fixed002", "Fixed003", "Fixed004">>
      [] OTHER -> ObjNameSeq

\* obj.properties as a dict: membership, lookup and del
HasKey(props, key) == \E i \in DOMAIN props : props[i][1] = key
Lookup(props, key) == props[CHOOSE i \in DOMAIN props : props[i][1] = key][2]
Without(props, key) == SelectSeq(props, LAMBDA e : e[1] # key)

\* obj.analysis when obj_data has no Analysis
NoAnalysis == ""
MeshType == "Fem::FemMeshGmsh"
\* obj.type.startswith("Fem::") for the types requested here
FemFamily == {"Fem::FemMeshGmsh", "Fem::AnalysisPython", "Fem::MaterialCommon",
              "Fem::ConstraintFixed", "Fem::Nope"}
\* the types fem_make_methods names or ObjectsFem has a make<suffix> for:
\* makeMaterialSolid, makeAnalysis, makeConstraintFixed
FemConstructors == {"Fem::MaterialCommon", "Fem::AnalysisPython", "Fem::ConstraintFixed"}

\* getattr(doc, obj.analysis).addObject: the name must be an object of the
\* document that is a group
IsAnalysis(objs, analysis) ==
    analysis \in DOMAIN objs /\ "Group" \in PropertiesList(objs[analysis])
AddToGroup(objs, analysis, name) ==
    [objs EXCEPT ![analysis].props["Group"] = List(Append(@.items, Ref(name)))]

\* lines 280-282: setattr for the parameters the mesh object has, the others
\* are skipped
RECURSIVE SetParams(_, _, _)
SetParams(objs, name, props) ==
    IF props = <<>> THEN [objs |-> objs, exc |-> NoExc]
    ELSE LET prop == Head(props)[1]
             val  == Head(props)[2]
         IN  IF prop \notin PropertiesList(objs[name])
             THEN SetParams(objs, name, Tail(props))
             ELSE IF KernelAccepts(objs[name], prop, val)
             THEN SetParams([objs EXCEPT ![name].props[prop] =
                                 Stored(objs[name], prop, val)],
                            name, Tail(props))
             ELSE [objs |-> objs, exc |-> Exc("PropertyAssignError", prop, "")]

\* a body that returns res after printing msg on the console
ReturnsPrinting(ds, act, res, msg) ==
    [docs |-> ds, active |-> act, raised |-> FALSE, res |-> res, exc |-> NoExc,
     console |-> msg]

\* a dispatch that tests the family before the mesh type
CreationPath_family_first(type, analysis) ==
    IF type \in FemFamily THEN "family"
    ELSE IF type = MeshType /\ analysis # NoAnalysis THEN "mesh"
    ELSE "generic"

\* the if / elif / else of lines 267, 288 and 306
CreationPath(type, analysis) ==
    IF type = MeshType /\ analysis # NoAnalysis THEN "mesh"
    ELSE IF type \in FemFamily THEN "family"
    ELSE "generic"

\* lines 268-286: the mesh object is made and put under the analysis, then
\* Part is resolved, then the other parameters are set and the mesh is
\* generated; nothing removes the mesh object when a step raises
create_mesh_gui(ds, act, req) ==
    LET objs   == ds[req.doc].objs
        failed(objs2, exc) ==
            Returns([ds EXCEPT ![req.doc].objs = objs2], act,
                    ErrRes("Failed to create object", exc))
        actual == UniqueName(req.name, NameSeq(req.name), DOMAIN objs)
        made   == AddToGroup(AddObject(objs, MeshType, actual), req.arg, actual)
    IN  IF ~IsAnalysis(objs, req.arg)
        THEN failed(objs, Exc("AttributeError", "", req.arg))
        ELSE IF ~HasKey(req.props, "Part")
        THEN failed(made, Exc("MissingField", "Part", ""))
        ELSE IF Lookup(req.props, "Part").kind # "str"
                \/ Lookup(req.props, "Part").s \notin DOMAIN made
        THEN failed(made, Exc("ReferenceNotFound", "Part",
                              IF Lookup(req.props, "Part").kind = "str"
                              THEN Lookup(req.props, "Part").s ELSE ""))
        ELSE LET linked == [made EXCEPT ![actual].props["Part"] =
                                Ref(Lookup(req.props, "Part").s)]
                 r == SetParams(linked, actual, Without(req.props, "Part"))
             IN  IF r.exc # NoExc
                 THEN failed(r.objs, r.exc)
                 ELSE ReturnsPrinting([ds EXCEPT ![req.doc].objs = r.objs], act,
                                      TrueRes, "FEM Mesh generated")

\* lines 289-304: the constructor of the type's suffix makes the object,
\* the properties are applied and the object is put under the analysis
create_fem_gui(ds, act, req) ==
    LET objs   == ds[req.doc].objs
        failed(objs2, exc) ==
            Returns([ds EXCEPT ![req.doc].objs = objs2], act,
                    ErrRes("Failed to create object", exc))
        actual == UniqueName(req.name, NameSeq(req.name), DOMAIN objs)
        r      == set_object_property(AddObject(objs, req.type, actual),
                                      actual, req.props)
    IN  IF req.type \notin FemConstructors
        THEN failed(objs, Exc("UnknownConstructor", "", req.type))
        ELSE IF r.exc # NoExc
        THEN failed(r.objs, r.exc)
        ELSE IF req.type # "Fem::AnalysisPython" /\ req.arg # NoAnalysis
        THEN IF IsAnalysis(r.objs, req.arg)
             THEN ReturnsPrinting(
                      [ds EXCEPT ![req.doc].objs = AddToGroup(r.objs, req.arg, actual)],
                      act, TrueRes, "FEM object created")
             ELSE failed(r.objs, Exc("AttributeError", "", req.arg))
        ELSE ReturnsPrinting([ds EXCEPT ![req.doc].objs = r.objs], act,
                             TrueRes, "FEM object created")

\* lines 307-309: doc.addObject makes the object; nothing removes it when
\* set_object_property raises
add_object_gui(ds, act, req) ==
    IF req.type \notin KnownTypes
    THEN Returns(ds, act,
                 ErrRes("Failed to create object", Exc("CreationError", "", req.type)))
    ELSE LET objs   == ds[req.doc].objs
             actual == UniqueName(req.name, NameSeq(req.name), DOMAIN objs)
             r      == set_object_property(AddObject(objs, req.type, actual),
                                           actual, req.props)
             docs2  == [ds EXCEPT ![req.doc].objs = r.objs]
         IN  IF r.exc = NoExc
             THEN ReturnsPrinting(docs2, act, TrueRes, "added via RPC")
             ELSE Returns(docs2, act, ErrRes("Failed to create object", r.exc))

\* the whole body is inside try: an unknown document (getDocument raising,
\* or None having no addObject) ends in the except clause, like every
\* failure of the three paths; req.arg is obj.analysis
create_object_gui(ds, act, req) ==
    IF req.doc \notin DOMAIN ds
    THEN Returns(ds, act,
                 ErrRes("Failed to create object", Exc("UnknownDocument", "", req.doc)))
    ELSE CASE CreationPath(req.type, req.arg) = "mesh" -> create_mesh_gui(ds, act, req)
           [] CreationPath(req.type, req.arg) = "family" -> create_fem_gui(ds, act, req)
           [] OTHER -> add_object_gui(ds, act, req)

\* an edit that answers True when the object is missing
edit_object_gui_silent(ds, act, req) ==
    IF req.doc \notin DOMAIN ds
    THEN IF getDocumentRaises
         THEN Raises(ds, act, Exc("UnknownDocument", "", req.doc))
         ELSE Returns(ds, act, ErrRes("", Exc("DocumentNotFound", "", req.doc)))
    ELSE IF req.name \notin DOMAIN ds[req.doc].objs
    THEN Returns(ds, act, TrueRes)
    ELSE LET r == set_object_property(ds[req.doc].objs, req.name, req.props)
         IN  Returns([ds EXCEPT ![req.doc].objs = r.objs], act,
                     IF r.exc = NoExc THEN TrueRes ELSE ErrRes("", r.exc))

\* an edit that leaves References to the loop of set_object_property
HasReferencesStep_never(obj, props) == FALSE

\* line 333: hasattr(obj_ins, "References") and "References" in obj.properties
HasReferencesStep(obj, props) ==
    "References" \in PropertiesList(obj) /\ HasKey(props, "References")

\* getDocument is called outside try: when it raises, the task raises.
\* Inside try, References is resolved and assigned first and taken out of
\* the mapping, then the rest goes to set_object_property
edit_object_gui(ds, act, req) ==
    IF req.doc \notin DOMAIN ds
    THEN IF getDocumentRaises
         THEN Raises(ds, act, Exc("UnknownDocument", "", req.doc))
         ELSE Returns(ds, act, ErrRes("", Exc("DocumentNotFound", "", req.doc)))
    ELSE IF req.name \notin DOMAIN ds[req.doc].objs
    THEN Returns(ds, act, ErrRes("", Exc("ObjectNotFound", "", req.name)))
    ELSE LET objs  == ds[req.doc].objs
             first == HasReferencesStep(objs[req.name], req.props)
             val   == Lookup(req.props, "References")
         IN  IF first /\ ~IsRefList(val)
             THEN Returns(ds, act, ErrRes("", Exc("TypeError", "References", "")))
             ELSE IF first /\ Unresolved(objs, val) # {}
             THEN Returns(ds, act,
                          ErrRes("", Exc("ReferenceNotFound", "References",
                                         FirstUnresolved(objs, val))))
             ELSE LET objs1 == IF first
                               THEN [objs EXCEPT ![req.name].props["References"] =
                                         ResolveRefs(val)]
                               ELSE objs
                      rest  == IF first THEN Without(req.props, "References")
                               ELSE req.props
                      r     == set_object_property(objs1, req.name, rest)
                      docs2 == [ds EXCEPT ![req.doc].objs = r.objs]
                  IN  IF r.exc = NoExc
                      THEN Returns(docs2, act, TrueRes)
                      ELSE Returns(docs2, act, ErrRes("", r.exc))

\* doc.removeObject(name): the object goes and every link to it is cleared
RemoveObject(objs, name) ==
    [n \in DOMAIN objs \ {name} |->
        [objs[n] EXCEPT !.props =
            [p \in DOMAIN objs[n].props |->
                IF objs[n].props[p] = Ref(name) THEN NoneV ELSE objs[n].props[p]]]]

delete_object_gui(ds, act, req) ==
    IF req.doc \notin DOMAIN ds
    THEN IF getDocumentRaises
         THEN Raises(ds, act, Exc("UnknownDocument", "", req.doc))
         ELSE Returns(ds, act, ErrRes("", Exc("DocumentNotFound", "", req.doc)))
    ELSE IF req.name \notin DOMAIN ds[req.doc].objs
    THEN Returns(ds, act, ErrRes("", Exc("ObjectNotFound", "", req.name)))
    ELSE Returns([ds EXCEPT ![req.doc].objs = RemoveObject(@, req.name)],
                 act, TrueRes)

\* the document a snippet builds with newDocument, addObject("Part::Box",
\* "Box"), ObjectsFem.makeAnalysis and ObjectsFem.makeConstraintFixed
FemDocument ==
    [objs |-> [n \in {"Box", "Analysis", "Fixed"} |->
                  CASE n = "Box" -> NewObject("Part::Box")
                    [] n = "Analysis" -> NewObject("Fem::AnalysisPython")
                    [] OTHER -> NewObject("Fem::ConstraintFixed")],
     camera |-> "Initial"]

\* the task of execute_code: exec(code) with stdout redirected. A snippet is
\* modelled by what it does: req.arg = "print" writes text, "raise" raises,
\* "print_raise" writes text and then raises, "newdoc" calls
\* FreeCAD.newDocument(req.doc), "fem_doc" builds FemDocument under that name
execute_code_task(ds, act, req) ==
    CASE req.arg \in {"raise", "print_raise"} ->
            Returns(ds, act, ErrRes("Error executing Python code", Exc("ScriptError", "", "")))
      [] req.arg = "newdoc" ->
            create_document_gui(ds, act, req)
      [] req.arg = "fem_doc" ->
            LET made == create_document_gui(ds, act, req)
            IN  [made EXCEPT !.docs[made.active] = FemDocument]
      [] OTHER -> Returns(ds, act, TrueRes)

\* the files under Mod/parts_library when the program starts
PartsLibrary == {"box.FCStd"}

\* insert_part_from_library + mergeProject on the active document: the part
\* file holds one Part::Box named Box
insert_part_from_library_gui(ds, act, req) ==
    IF ~parts_lib_path.exists \/ req.arg \notin parts_lib_path.files
    THEN Returns(ds, act, ErrRes("", Exc("FileNotFound", "", req.arg)))
    ELSE IF act = ""
    THEN Returns(ds, act, ErrRes("", Exc("NoActiveDocument", "", "")))
    ELSE Returns([ds EXCEPT ![act].objs =
                     AddObject(@, "Part::Box", UniqueName("Box", ObjNameSeq, DOMAIN @))],
                 act, TrueRes)

ViewNames == {"Isometric", "Front", "Top", "Right", "Back", "Left", "Bottom",
              "Dimetric", "Trimetric"}

\* screenshot_task: _save_active_screenshot turns the camera and saves the
\* image; with an invalid view name it returns its error string, which
\* screenshot_task drops, and the empty temp file is read back
screenshot_task(ds, act, req) ==
    IF act = ""
    THEN Returns(ds, act, ErrRes("", Exc("NoActiveDocument", "", "")))
    ELSE IF req.arg \in ViewNames
    THEN Returns([ds EXCEPT ![act].camera = req.arg], act, ImageRes(req.arg))
    ELSE Returns(ds, act, EmptyStr)

\* task(): the callable a remote call put on the request queue
TaskBody(ds, act, req) ==
    CASE req.op = "create_document" -> create_document_gui(ds, act, req)
      [] req.op = "create_object"   -> create_object_gui(ds, act, req)
      [] req.op = "edit_object"     -> edit_object_gui(ds, act, req)
      [] req.op = "delete_object"   -> delete_object_gui(ds, act, req)
      [] req.op = "execute_code"    -> execute_code_task(ds, act, req)
      [] req.op = "insert_part_from_library" -> insert_part_from_library_gui(ds, act, req)
      [] req.op = "get_active_screenshot"    -> screenshot_task(ds, act, req)

\* ------------------------------------------------------------------ inputs
DocArgs == {"Doc", "Doc1"}
ObjArgs == {"Box", "Box001"}
PropBatches ==
    { <<>>,
      << <<"Length", Num(20)>> >>,
      << <<"Length", Str("x")>>, <<"Height", Num(20)>> >>,
      << <<"Length", Num(20)>>, <<"Height", Str("x")>> >>,
      << <<"Base", Str("Box")>> >>,
      << <<"Base", Str("Ghost")>>, <<"Tool", Str("Box")>> >> }
\* obj_data of create_object: <<Type, Properties>>
ObjectData ==
    { <<"Part::Box", <<>> >>,
      <<"Part::Box", << <<"Length", Num(20)>> >> >>,
      <<"Part::Box", << <<"Length", Str("x")>>, <<"Height", Num(20)>> >> >>,
      <<"Part::Box", << <<"Length", Num(20)>>, <<"Height", Str("x")>> >> >>,
      <<"Part::Cut", << <<"Base", Str("Box")>> >> >>,
      <<"Part::Cut", << <<"Base", Str("Ghost")>>, <<"Tool", Str("Box")>> >> >>,
      <<"Part::Nope", <<>> >>,
      <<NoType, <<>> >> }
Snippets == {"print", "raise", "newdoc"}
PathArgs == {"box.FCStd", "nut.FCStd"}
ViewArgs == {"Top", "Sideways"}

\* ------------------------------------------------------------ placeholders
NoTask == [id |-> 0, req |-> Request("", "", "", "", <<>>, "")]
NoGot  == [id |-> 0, res |-> NoRes]
NoReply == [success |-> FALSE, value |-> NoRes, out |-> ""]

\* functools.cache of get_parts_list: whether it holds a result, the result
\* and the number of calls it answered (cache_info().hits)
NoCache == [hit |-> FALSE, parts |-> {}, hits |-> 0]
NoPureCall == [fn |-> "", arg |-> NoneV, ret |-> NoneV]

\* ------------------------------------------------------ transport context
\* SimpleXMLRPCServer handles one request at a time: serve_forever takes the
\* next request only when the handler of the previous one has returned
ServerIdle_threaded == TRUE

ServerIdle == \A i \in DOMAIN calls : calls[i].pc = "done"

Accepting ==
    /\ rpc_server_thread = "serving"
    /\ ~shutdown_request
    /\ ServerIdle
    /\ Len(calls) < MaxCalls

NewCall(req) == [pc |-> "waiting", req |-> req, got |-> NoGot, reply |-> NoReply, buf |-> ""]

\* the locals of a handler that has returned are gone: of an earlier call
\* only the id of the task whose result it took is remembered
Returned(c) ==
    IF c.pc = "done"
    THEN [pc |-> "done", req |-> NoTask.req, got |-> [id |-> c.got.id, res |-> NoRes],
          reply |-> NoReply, buf |-> ""]
    ELSE c

Accepted(c) == Append([i \in DOMAIN calls |-> Returned(calls[i])], c)

NoLast == [id |-> 0, req |-> NoTask.req, before |-> [d \in {} |-> NewDocument],
           out |-> Returns([d \in {} |-> NewDocument], "", NoRes)]

\* a handler that runs the task body itself instead of queueing it
Submit_direct(req) ==
    LET id  == Len(calls) + 1
        out == TaskBody(docs, active, req)
    IN  /\ docs' = out.docs
        /\ active' = out.active
        /\ rpc_response_queue' = Append(rpc_response_queue, [id |-> id, res |-> out.res])
        /\ submit_log' = Append(submit_log, id)
        /\ calls' = Accepted(NewCall(req))
        /\ last' = NoLast
        /\ UNCHANGED <<rpc_server_instance, rpc_server_thread, shutdown_request,
                       rpc_request_queue, polls, gui, gui_msg,
                       getDocumentRaises, _freecad_connection, tool_calls, run_log, faults,
                       parts_lib_path, get_parts_list_cache, pure_call>>

\* rpc_request_queue.put(lambda: ...): the handler queues the task and goes
\* on to wait for a response
Submit(req) ==
    LET id == Len(calls) + 1
    IN  /\ rpc_request_queue' = Append(rpc_request_queue, [id |-> id, req |-> req])
        /\ submit_log' = Append(submit_log, id)
        /\ calls' = Accepted(NewCall(req))
        /\ last' = NoLast
        /\ UNCHANGED <<rpc_server_instance, rpc_server_thread, shutdown_request,
                       rpc_response_queue, polls, gui, gui_msg, docs, active,
                       getDocumentRaises, _freecad_connection, tool_calls, run_log, faults,
                       parts_lib_path, get_parts_list_cache, pure_call>>

create_document(name) ==
    /\ Accepting
    /\ Submit(Request("create_document", name, "", "", <<>>, ""))

\* obj_data.get("Analysis", None) of obj_data given as <<Type, Properties>> or
\* <<Type, Properties, Analysis>>
Analysis(data) == IF Len(data) = 3 THEN data[3] ELSE NoAnalysis

\* a constructor that reads Type with obj_data.get: nothing is raised
KeyError_never(type) == FALSE

\* obj_data["Type"] raises KeyError when obj_data has no Type
KeyError(type) == type = NoType

\* Object(...) is built first: obj_data without Type is answered at once
create_object(doc_name, name, type, props, analysis) ==
    /\ Accepting
    /\ IF KeyError(type)
       THEN /\ calls' = Accepted(
                   [pc |-> "done",
                    req |-> Request("create_object", doc_name, name, type, props, analysis),
                    got |-> NoGot,
                    reply |-> [success |-> FALSE,
                               value |-> ErrRes("Missing required field in obj_data",
                                                Exc("MissingField", "", "Type")),
                               out |-> ""],
                    buf |-> ""])
            /\ last' = NoLast
            /\ UNCHANGED <<rpc_server_instance, rpc_server_thread, shutdown_request,
                           rpc_request_queue, rpc_response_queue, polls, gui,
                           gui_msg, docs, active, getDocumentRaises, _freecad_connection, tool_calls, submit_log, run_log, faults,
                           parts_lib_path, get_parts_list_cache, pure_call>>
       ELSE Submit(Request("create_object", doc_name, name, type, props, analysis))

edit_object(doc_name, obj_name, props) ==
    /\ Accepting
    /\ Submit(Request("edit_object", doc_name, obj_name, "", props, ""))

delete_object(doc_name, obj_name) ==
    /\ Accepting
    /\ Submit(Request("delete_object", doc_name, obj_name, "", <<>>, ""))

execute_code(code) ==
    /\ Accepting
    /\ Submit(Request("execute_code", "Doc", "", "", <<>>, code))

insert_part_from_library(relative_path) ==
    /\ Accepting
    /\ Submit(Request("insert_part_from_library", "", "", "", <<>>, relative_path))

get_active_screenshot(view_name) ==
    /\ Accepting
    /\ Submit(Request("get_active_screenshot", "", "", "", <<>>, view_name))

\* a handler that answers on the server thread, without a task
Answer(req, reply) ==
    /\ calls' = Accepted([pc |-> "done", req |-> req, got |-> NoGot,
                          reply |-> reply, buf |-> ""])
    /\ UNCHANGED <<rpc_server_instance, rpc_server_thread, shutdown_request,
                   rpc_request_queue, rpc_response_queue, polls, gui, gui_msg,
                   docs, active, getDocumentRaises, _freecad_connection, tool_calls, submit_log, run_log, faults,
                   last, parts_lib_path, get_parts_list_cache, pure_call>>

\* {"success": False, "error": ...} and a value returned as it is
Failure(res) == [success |-> FALSE, value |-> res, out |-> ""]
Bare(v) == [value |-> v]
IsFailure(reply) == "success" \in DOMAIN reply /\ ~reply.success

\* an unknown document ends in the except clause (getDocument raising, or
\* None having no Objects)
get_objects_reply(ds, doc_name) ==
    IF doc_name \notin DOMAIN ds
    THEN Failure(ErrRes("", Exc("UnknownDocument", "", doc_name)))
    ELSE Bare([n \in DOMAIN ds[doc_name].objs |->
                 serialize_object(ds[doc_name].objs, n)])

get_objects(doc_name) ==
    /\ Accepting
    /\ Answer(Request("get_objects", doc_name, "", "", <<>>, ""),
              get_objects_reply(docs, doc_name))

\* a get_object that serializes whatever getObject returned
get_object_reply_unchecked(ds, doc_name, obj_name) ==
    IF doc_name \notin DOMAIN ds
    THEN Failure(ErrRes("", Exc("UnknownDocument", "", doc_name)))
    ELSE IF obj_name \notin DOMAIN ds[doc_name].objs
    THEN Bare([Name |-> "", TypeId |-> "", Properties |-> [p \in {} |-> NoneV]])
    ELSE Bare(serialize_object(ds[doc_name].objs, obj_name))

get_object_reply(ds, doc_name, obj_name) ==
    IF doc_name \notin DOMAIN ds
    THEN Failure(ErrRes("", Exc("UnknownDocument", "", doc_name)))
    ELSE IF obj_name \notin DOMAIN ds[doc_name].objs
    THEN Failure(ErrRes("", Exc("ObjectNotFound", "", obj_name)))
    ELSE Bare(serialize_object(ds[doc_name].objs, obj_name))

get_object(doc_name, obj_name) ==
    /\ Accepting
    /\ Answer(Request("get_object", doc_name, obj_name, "", <<>>, ""),
              get_object_reply(docs, doc_name, obj_name))

\* an exception that leaves the handler: the transport answers the caller
\* with a fault and serves on
Fault(exc) == [fault |-> exc]

\* the names under parts_library a directory walk can meet
LibraryFiles == {"box.FCStd", "nut.FCStd", "notes.txt"}
\* file.endswith(".FCStd")
EndsWithFCStd(file) == file \in {"box.FCStd", "nut.FCStd"}

\* a cache that never holds a result
CacheHit_never(c) == FALSE

\* @cache: a call is answered from the cache once a call has returned
CacheHit(c) == c.hit

\* get_parts_list(): the handler returns what the cached function returns;
\* a FileNotFoundError is not cached and leaves the handler
get_parts_list ==
    /\ Accepting
    /\ calls' = Accepted(
           [pc |-> "done",
            req |-> Request("get_parts_list", "", "", "", <<>>, ""),
            got |-> NoGot,
            reply |-> IF CacheHit(get_parts_list_cache)
                      THEN Bare(get_parts_list_cache.parts)
                      ELSE IF ~parts_lib_path.exists
                      THEN Fault(Exc("FileNotFound", "", "parts_library"))
                      ELSE Bare({f \in parts_lib_path.files : EndsWithFCStd(f)}),
            buf |-> ""])
    /\ get_parts_list_cache' =
          IF CacheHit(get_parts_list_cache)
          THEN [get_parts_list_cache EXCEPT !.hits = @ + 1]
          ELSE IF ~parts_lib_path.exists
          THEN get_parts_list_cache
          ELSE [hit |-> TRUE,
                parts |-> {f \in parts_lib_path.files : EndsWithFCStd(f)},
                hits |-> get_parts_list_cache.hits]
    /\ UNCHANGED <<rpc_server_instance, rpc_server_thread, shutdown_request,
                   rpc_request_queue, rpc_response_queue, polls, gui, gui_msg,
                   docs, active, getDocumentRaises, _freecad_connection, tool_calls, submit_log, run_log, faults,
                   last, parts_lib_path, pure_call>>

\* a success message without the output buffer
Envelope_no_output(req, res, buf) ==
    IF res = TrueRes
    THEN [success |-> TRUE, value |-> res, out |-> ""]
    ELSE [success |-> FALSE, value |-> res, out |-> ""]

\* what the handler returns for the value it took from the response queue
Envelope(req, res, buf) ==
    IF req.op = "get_active_screenshot"
    THEN IF res.val = "image"
         THEN [success |-> TRUE, value |-> res, out |-> ""]
         ELSE [success |-> FALSE, value |-> NoRes, out |-> ""]
    ELSE IF res = TrueRes
         THEN [success |-> TRUE, value |-> res,
               out |-> IF req.op = "execute_code" THEN buf ELSE ""]
         ELSE [success |-> FALSE, value |-> res, out |-> ""]

\* res = rpc_response_queue.get(): blocks until the queue has a value, takes
\* the oldest one and returns the envelope
rpc_response_queue_get(i) ==
    /\ calls[i].pc = "waiting"
    /\ rpc_response_queue # <<>>
    /\ rpc_response_queue' = Tail(rpc_response_queue)
    /\ calls' = [calls EXCEPT ![i].pc = "done",
                              ![i].got = Head(rpc_response_queue),
                              ![i].reply = Envelope(calls[i].req,
                                                    Head(rpc_response_queue).res,
                                                    calls[i].buf)]
    /\ UNCHANGED <<rpc_server_instance, rpc_server_thread, shutdown_request,
                   rpc_request_queue, polls, gui, gui_msg, docs, active,
                   getDocumentRaises, _freecad_connection, tool_calls, submit_log, run_log, faults, last,
                   parts_lib_path, get_parts_list_cache, pure_call>>

\* serve_forever leaves its loop once shutdown() has set the flag and no
\* request is being handled
serve_forever_exit ==
    /\ rpc_server_thread = "serving"
    /\ shutdown_request
    /\ ServerIdle
    /\ rpc_server_thread' = "none"
    /\ UNCHANGED <<rpc_server_instance, shutdown_request, rpc_request_queue,
                   rpc_response_queue, calls, polls, gui, gui_msg, docs, active,
                   getDocumentRaises, _freecad_connection, tool_calls, submit_log, run_log, faults, last,
                   parts_lib_path, get_parts_list_cache, pure_call>>

\* the state after the module is loaded: no server, no document
Loaded ==
    /\ rpc_server_instance = FALSE
    /\ rpc_server_thread = "none"
    /\ shutdown_request = FALSE
    /\ rpc_request_queue = <<>>
    /\ rpc_response_queue = <<>>
    /\ calls = <<>>
    /\ polls = <<>>
    /\ gui = "idle"
    /\ gui_msg = ""
    /\ docs = [d \in {} |-> NewDocument]
    /\ active = ""
    /\ getDocumentRaises \in BOOLEAN
    /\ submit_log = <<>>
    /\ run_log = <<>>
    /\ faults = {}
    /\ last = NoLast
    /\ parts_lib_path = [exists |-> TRUE, files |-> PartsLibrary]
    /\ get_parts_list_cache = NoCache
    /\ _freecad_connection = NoneV
    /\ tool_calls = <<>>

Init ==
    /\ Loaded
    /\ pure_call = NoPureCall

\* ------------------------------------------------------------ owning context
\* the GUI thread runs one command or timer callback at a time
EventLoopFree_threaded == TRUE

EventLoopFree ==
    /\ gui = "idle"
    /\ \A k \in DOMAIN polls : polls[k].pc = "armed"

Armed == [pc |-> "armed", task |-> NoTask]

\* a poll that ends without arming the next one
Rearm_missing == [pc |-> "dead", task |-> NoTask]

\* QTimer.singleShot(500, process_gui_tasks) at the end of process_gui_tasks
Rearm == Armed

start_rpc_server ==
    /\ EventLoopFree
    /\ IF rpc_server_instance
       THEN /\ gui_msg' = "RPC Server already running."
            /\ UNCHANGED <<rpc_server_instance, rpc_server_thread, shutdown_request,
                           polls>>
       ELSE /\ Len(polls) < MaxStarts
            /\ rpc_server_instance' = TRUE
            /\ shutdown_request' = FALSE
            /\ rpc_server_thread' = "serving"
            /\ polls' = Append(polls, Armed)
            /\ gui_msg' = "RPC Server started."
    /\ UNCHANGED <<rpc_request_queue, rpc_response_queue, calls, gui, docs,
                   active, getDocumentRaises, _freecad_connection, tool_calls, submit_log, run_log, faults, last,
                   parts_lib_path, get_parts_list_cache, pure_call>>

\* shutdown() sets the flag and waits for serve_forever to leave its loop;
\* join() then waits for the thread
stop_rpc_server ==
    /\ EventLoopFree
    /\ IF rpc_server_instance
       THEN /\ shutdown_request' = TRUE
            /\ gui' = "stopping"
            /\ UNCHANGED gui_msg
       ELSE /\ gui_msg' = "RPC Server was not running."
            /\ UNCHANGED <<shutdown_request, gui>>
    /\ UNCHANGED <<rpc_server_instance, rpc_server_thread, rpc_request_queue,
                   rpc_response_queue, calls, polls, docs, active,
                   getDocumentRaises, _freecad_connection, tool_calls, submit_log, run_log, faults, last,
                   parts_lib_path, get_parts_list_cache, pure_call>>

stop_rpc_server_return ==
    /\ gui = "stopping"
    /\ rpc_server_thread = "none"
    /\ rpc_server_instance' = FALSE
    /\ gui' = "idle"
    /\ gui_msg' = "RPC Server stopped."
    /\ UNCHANGED <<rpc_server_thread, shutdown_request, rpc_request_queue,
                   rpc_response_queue, calls, polls, docs, active,
                   getDocumentRaises, _freecad_connection, tool_calls, submit_log, run_log, faults, last,
                   parts_lib_path, get_parts_list_cache, pure_call>>

\* the timer armed by QTimer.singleShot(500, process_gui_tasks) fires
process_gui_tasks_fire(k) ==
    /\ EventLoopFree
    /\ polls[k].pc = "armed"
    /\ polls' = [polls EXCEPT ![k].pc = "check"]
    /\ UNCHANGED <<rpc_server_instance, rpc_server_thread, shutdown_request,
                   rpc_request_queue, rpc_response_queue, calls, gui, gui_msg,
                   docs, active, getDocumentRaises, _freecad_connection, tool_calls, submit_log, run_log, faults, last,
                   parts_lib_path, get_parts_list_cache, pure_call>>

\* a get that leaves the task on the queue
Dequeue_peek(q) == q

\* rpc_request_queue.get(): the queue without its oldest task
Dequeue(q) == Tail(q)

\* while not rpc_request_queue.empty(): task = rpc_request_queue.get();
\* after the loop the next poll is armed
process_gui_tasks_check(k) ==
    /\ polls[k].pc = "check"
    /\ IF rpc_request_queue = <<>>
       THEN /\ polls' = [polls EXCEPT ![k] = Rearm]
            /\ UNCHANGED rpc_request_queue
       ELSE /\ polls' = [polls EXCEPT ![k] = [pc |-> "exec", task |-> Head(rpc_request_queue)]]
            /\ rpc_request_queue' = Dequeue(rpc_request_queue)
    /\ UNCHANGED <<rpc_server_instance, rpc_server_thread, shutdown_request,
                   rpc_response_queue, calls, gui, gui_msg, docs, active,
                   getDocumentRaises, _freecad_connection, tool_calls, submit_log, run_log, faults, last,
                   parts_lib_path, get_parts_list_cache, pure_call>>

\* a loop without the except clause: the fault leaves process_gui_tasks,
\* nothing is published and the next poll is not armed
TaskFault_escapes(exc) == [res |-> NoRes, escapes |-> TRUE]

\* except Exception as e: the message is put on the response queue and the
\* loop goes on
TaskFault(exc) ==
    [res |-> ErrRes("Unhandled exception in GUI task", exc), escapes |-> FALSE]

\* a test of the result's truth value in place of "is not None"
Published_truthy(out) ==
    IF out.raised THEN TaskFault(out.exc)
    ELSE [res |-> IF out.res = EmptyStr THEN NoRes ELSE out.res, escapes |-> FALSE]

\* what process_gui_tasks does with the outcome of task()
Published(out) ==
    IF out.raised THEN TaskFault(out.exc) ELSE [res |-> out.res, escapes |-> FALSE]

\* text the snippet of execute_code leaves in the caller's output_buffer
Stdout(req) ==
    IF req.op = "execute_code" /\ req.arg \in {"print", "print_raise"} THEN "hi" ELSE ""

\* res = task(); if res is not None: rpc_response_queue.put(res)
process_gui_tasks_run(k) ==
    LET task == polls[k].task
        out  == TaskBody(docs, active, task.req)
        pub  == Published(out)
    IN  /\ polls[k].pc = "exec"
        /\ docs' = out.docs
        /\ active' = out.active
        /\ calls' = [calls EXCEPT ![task.id].buf = Stdout(task.req)]
        /\ rpc_response_queue' =
              IF pub.res # NoRes
              THEN Append(rpc_response_queue, [id |-> task.id, res |-> pub.res])
              ELSE rpc_response_queue
        /\ polls' = [polls EXCEPT ![k] = [pc |-> IF pub.escapes THEN "dead" ELSE "check",
                                          task |-> NoTask]]
        /\ run_log' = Append(run_log, task.id)
        /\ faults' = IF out.raised THEN faults \cup {task.id} ELSE faults
        /\ last' = [id |-> task.id, req |-> task.req, before |-> docs, out |-> out]
        /\ UNCHANGED <<rpc_server_instance, rpc_server_thread, shutdown_request,
                       rpc_request_queue, gui, gui_msg, getDocumentRaises, _freecad_connection, tool_calls, submit_log,
                       parts_lib_path, get_parts_list_cache, pure_call>>

\* ---------------------------------------------------------------- the system
\* the steps of the two contexts, with the arguments of the remote calls
\* drawn from the given sets
Step(DocS, ObjS, DataS, BatchS, CodeS, PathS, ViewS) ==
    \/ \E name \in DocS : create_document(name)
    \/ \E d \in DocS, n \in ObjS, data \in DataS :
          create_object(d, n, data[1], data[2], Analysis(data))
    \/ \E d \in DocS, n \in ObjS, ps \in BatchS : edit_object(d, n, ps)
    \/ \E d \in DocS, n \in ObjS : delete_object(d, n)
    \/ \E code \in CodeS : execute_code(code)
    \/ \E path \in PathS : insert_part_from_library(path)
    \/ \E view \in ViewS : get_active_screenshot(view)
    \/ \E i \in DOMAIN calls : rpc_response_queue_get(i)
    \/ serve_forever_exit
    \/ start_rpc_server
    \/ stop_rpc_server
    \/ stop_rpc_server_return
    \/ \E k \in DOMAIN polls : process_gui_tasks_fire(k)
    \/ \E k \in DOMAIN polls : process_gui_tasks_check(k)
    \/ \E k \in DOMAIN polls : process_gui_tasks_run(k)

Next == Step(DocArgs, ObjArgs, ObjectData, PropBatches, Snippets, PathArgs, ViewArgs)

Spec == Init /\ [][Next]_vars

\* the GUI event loop keeps firing armed timers and running their callbacks,
\* and a handler blocked in rpc_response_queue.get() returns once a value is
\* on the queue
PollSteps ==
    \E k \in DOMAIN polls :
        process_gui_tasks_fire(k) \/ process_gui_tasks_check(k) \/ process_gui_tasks_run(k)

\* fewer arguments for the liveness check: one document name, one object
\* name, and of each operation one argument that succeeds and one that fails
FairNext ==
    Step({"Doc"}, {"Box"},
         { <<"Part::Box", <<>> >>, <<NoType, <<>> >> },
         { <<>>, << <<"Length", Str("x")>>, <<"Height", Num(20)>> >> },
         {"raise"}, {"box.FCStd"}, {"Sideways"})

FairSpec ==
    /\ Init /\ [][FairNext]_vars
    /\ WF_vars(PollSteps)
    /\ WF_vars(\E i \in DOMAIN calls : rpc_response_queue_get(i))

\* ------------------------------------------- the codec and the applier alone
\* serialize_value and set_object_property applied directly to values the
\* kernel can hold
Positions == {Vector(0, 0, 0), Vector(1, 2, 3), Vector(-5, 0, 7)}
Axes == {Vector(1, 0, 0), Vector(0, 1, 0), Vector(0, 0, 1),
         Vector(-1, 0, 0), Vector(0, -1, 0), Vector(0, 0, -1)}
Angles == {0, 30000, 90000, 180000}
Placements ==
    {Placement(b, Rotation(ax, an)) : b \in Positions, ax \in Axes, an \in Angles}
VectorMappings ==
    {EmptyDict,
     Dict([k \in {"z"} |-> Num(5)]),
     Dict([k \in {"x"} |-> Num(4)]),
     XYZ(1, 2, 3)}
NativeValues ==
    {Num(7), Str("abc"), Bool(TRUE), NoneV, Ref("Box"), Quantity(10),
     Vector(1, 2, 3), Rotation(Vector(0, 1, 0), 90000),
     Placement(Vector(1, 2, 3), Rotation(Vector(0, 0, 1), 30000)),
     Color(1, 0, 0, 1), List(<<>>),
     List(<<Num(1), Vector(0, 0, 1), NoneV>>),
     List(<<List(<<Ref("Box"), Str("Face1")>>)>>)}

PureInputs ==
    {[case |-> "placement", value |-> pl, key |-> k] :
        pl \in Placements, k \in {"Base", "Position"}}
    \cup {[case |-> "vector", current |-> v, mapping |-> m] :
            v \in Positions, m \in VectorMappings}
    \cup {[case |-> "value", value |-> v] : v \in NativeValues}

PureInit ==
    /\ Loaded
    /\ pure_call \in {[fn |-> "", arg |-> a, ret |-> NoneV] : a \in PureInputs}

\* the mapping with the position under the other key the applier reads
Rekey(mapping, key) ==
    IF key = "Base" THEN mapping
    ELSE Dict([k \in (DOMAIN mapping.m \ {"Base"}) \cup {key} |->
                 IF k = key THEN mapping.m["Base"] ELSE mapping.m[k]])

\* the property prop of a fresh object of the given type after
\* set_object_property({prop: val}); NoneV when the assignment raised
AppliedAlone(type, current, prop, val) ==
    LET objs == [n \in {"Box"} |->
                    [NewObject(type) EXCEPT !.props[prop] = current]]
        r    == set_object_property(objs, "Box", << <<prop, val>> >>)
    IN  IF r.exc = NoExc THEN r.objs["Box"].props[prop] ELSE NoneV

Applied(fn, ret) ==
    /\ pure_call.fn = ""
    /\ pure_call' = [pure_call EXCEPT !.fn = fn, !.ret = ret]
    /\ UNCHANGED <<rpc_server_instance, rpc_server_thread, shutdown_request,
                   rpc_request_queue, rpc_response_queue, calls, polls, gui,
                   gui_msg, docs, active, getDocumentRaises, _freecad_connection, tool_calls, submit_log, run_log,
                   faults, last, parts_lib_path, get_parts_list_cache>>

\* a Placement through serialize_value and back through the Placement branch
placement_round_trip ==
    /\ pure_call.arg.case = "placement"
    /\ Applied("round_trip",
               AppliedAlone("Part::Box", pure_call.arg.value, "Placement",
                            Rekey(serialize_value(pure_call.arg.value),
                                  pure_call.arg.key)))

\* a mapping applied to a property that holds a vector
vector_from_mapping ==
    /\ pure_call.arg.case = "vector"
    /\ Applied("vector",
               AppliedAlone("Part::Mirroring", pure_call.arg.current, "Normal",
                            pure_call.arg.mapping))

serialize_value_call ==
    /\ pure_call.arg.case = "value"
    /\ Applied("serialize_value", serialize_value(pure_call.arg.value))

PureNext == placement_round_trip \/ vector_from_mapping \/ serialize_value_call

PureSpec == PureInit /\ [][PureNext]_vars

\* ------------------------------------------------------- the read-only calls
\* the calls the server thread answers itself
Queries(DocS, ObjS) ==
    \/ \E d \in DocS : get_objects(d)
    \/ \E d \in DocS, n \in ObjS : get_object(d, n)
    \/ get_parts_list

\* a placement given with the position under Position and an angle of 90
Quarter ==
    Dict([k \in {"Position", "Rotation"} |->
            IF k = "Position" THEN XYZ(1, 2, 3)
            ELSE Dict([a \in {"Angle"} |-> Num(90000)])])

\* one client that writes one object of one document and reads it back
ReadNext ==
    \/ Step({"Doc"}, {"Box"},
            { <<"Part::Box", <<>> >>,
              <<"Part::Box", << <<"Length", Num(20)>>, <<"Label2", Str("lid")>> >> >>,
              <<"Part::Box", << <<"Placement", Quarter>> >> >>,
              <<NoType, <<>> >> },
            { << <<"Label2", Str("lid")>> >>,
              << <<"Placement", Quarter>> >>,
              << <<"Length", Str("x")>> >> },
            {"print", "raise", "print_raise"}, {"box.FCStd"}, {"Sideways"})
    \/ Queries({"Doc"}, {"Box"})

ReadSpec == Init /\ [][ReadNext]_vars

\* --------------------------------------------------------- the Fem objects
OneRef(name) == List(<< List(<<Str(name), Str("Face1")>>) >>)

\* obj_data of the Fem types, with and without Analysis
FemData ==
    { <<MeshType, << <<"CharacteristicLengthMax", Num(5)>>, <<"Part", Str("Box")>> >>, "Analysis">>,
      <<MeshType, << <<"CharacteristicLengthMax", Num(5)>> >>, "Analysis">>,
      <<MeshType, << <<"Part", Str("Ghost")>> >>, "Analysis">>,
      <<MeshType, << <<"Part", Str("Box")>> >>, "Box">>,
      <<MeshType, << <<"Part", Str("Box")>> >> >>,
      <<"Fem::ConstraintFixed", << <<"References", OneRef("Box")>> >>, "Analysis">>,
      <<"Fem::AnalysisPython", <<>>, "Analysis">>,
      <<"Fem::MaterialCommon", <<>> >>,
      <<"Fem::Nope", <<>>, "Analysis">>,
      <<"Part::Box", <<>>, "Analysis">>,
      <<"Part::Nope", <<>>, "Analysis">>,
      <<NoType, <<>> >> }

\* Properties of edit_object for an object with a References slot
FemBatches ==
    { << <<"Scale", Num(2)>>, <<"References", OneRef("Box")>> >>,
      << <<"Scale", Str("x")>>, <<"References", OneRef("Box")>> >>,
      << <<"Scale", Num(2)>>, <<"References", OneRef("Ghost")>> >>,
      << <<"References", OneRef("Box")>>, <<"Scale", Str("x")>> >>,
      << <<"Scale", Num(2)>> >> }

\* one client that creates objects in a document with a box, an analysis
\* and a constraint
FemNext ==
    Step({"Doc"}, {"Mesh"}, FemData, { <<>> }, {"fem_doc"}, {"box.FCStd"},
         {"Sideways"})

FemSpec == Init /\ [][FemNext]_vars

\* one client that edits the constraint of such a document
ReferencesNext ==
    Step({"Doc"}, {"Fixed"}, { <<"Part::Box", <<>> >>, <<NoType, <<>> >> },
         FemBatches, {"fem_doc"}, {"box.FCStd"}, {"Sideways"})

ReferencesSpec == Init /\ [][ReferencesNext]_vars

\* ------------------------------------------------- the display properties
Red == List(<<Num(100), Num(0), Num(0), Num(100)>>)

\* Properties of edit_object that name ShapeColor or ViewObject: colours of
\* four and of three components, a colour that is no list and one whose
\* component is no number, mappings whose second key succeeds and fails, and
\* a colour next to a data property
ViewBatches ==
    { << <<"ShapeColor", Red>> >>,
      << <<"ShapeColor", List(<<Num(0), Bool(TRUE), Num(50)>>)>> >>,
      << <<"ShapeColor", Str("red")>> >>,
      << <<"ShapeColor", List(<<Str("red")>>)>> >>,
      << <<"ViewObject", Ordered(<< <<"Transparency", Num(50)>>,
                                    <<"ShapeColor", Red>> >>)>> >>,
      << <<"ViewObject", Ordered(<< <<"Visibility", Bool(FALSE)>>,
                                    <<"Opacity", Num(1)>> >>)>> >>,
      << <<"ShapeColor", Red>>, <<"Length", Num(20)>> >>,
      << <<"Length", Str("x")>>, <<"ShapeColor", Red>> >> }

\* one client that creates a box and edits how it is displayed
ViewNext ==
    Step({"Doc"}, {"Box"}, { <<"Part::Box", <<>> >>, <<NoType, <<>> >> },
         ViewBatches, {"raise"}, {"box.FCStd"}, {"Sideways"})

ViewSpec == Init /\ [][ViewNext]_vars

\* ------------------------------------------------ the parts library on disk
\* another process adds or removes a file, or removes or makes the directory
parts_lib_path_change ==
    /\ \/ \E f \in LibraryFiles \ parts_lib_path.files :
             /\ parts_lib_path.exists
             /\ parts_lib_path' = [parts_lib_path EXCEPT !.files = @ \cup {f}]
       \/ \E f \in parts_lib_path.files :
             parts_lib_path' = [parts_lib_path EXCEPT !.files = @ \ {f}]
       \/ /\ parts_lib_path.exists
          /\ parts_lib_path' = [exists |-> FALSE, files |-> {}]
       \/ /\ ~parts_lib_path.exists
          /\ parts_lib_path' = [exists |-> TRUE, files |-> {}]
    /\ UNCHANGED <<rpc_server_instance, rpc_server_thread, shutdown_request,
                   rpc_request_queue, rpc_response_queue, calls, polls, gui,
                   gui_msg, docs, active, getDocumentRaises, _freecad_connection, tool_calls, submit_log, run_log,
                   faults, last, get_parts_list_cache, pure_call>>

\* the calls that read the library, with the steps of the two contexts, while
\* the library changes on disk
LibraryNext ==
    \/ create_document("Doc")
    \/ \E path \in PathArgs : insert_part_from_library(path)
    \/ get_parts_list
    \/ \E i \in DOMAIN calls : rpc_response_queue_get(i)
    \/ serve_forever_exit
    \/ start_rpc_server
    \/ stop_rpc_server
    \/ stop_rpc_server_return
    \/ PollSteps
    \/ parts_lib_path_change

LibrarySpec == Init /\ [][LibraryNext]_vars

\* ------------------------------------------------ the tool layer (server.py)
\* FreeCADConnection(host, port): a proxy for the port, nothing is sent until
\* a method is called; pinged tells whether a ping on it has returned True
FreeCADConnection(n) == [kind |-> "connection", id |-> n, pinged |-> FALSE]

\* what self.server.ping() can give: the addon's server answers True; with no
\* server on the port the call raises (connection refused); a service on the
\* port that is not the addon may answer False
ping ==
    IF rpc_server_thread = "serving" /\ ~shutdown_request
    THEN {"True"}
    ELSE {"False", "raises"}

\* one call of get_freecad_connection by a tool or by server_lifespan: the
\* global is assigned before the ping, reset when the ping answers False,
\* and returned without a ping when it is already set
get_freecad_connection ==
    /\ Len(tool_calls) < MaxToolCalls
    /\ IF _freecad_connection = NoneV
       THEN \E answer \in ping :
               LET conn == FreeCADConnection(Len(tool_calls) + 1)
               IN  CASE answer = "True" ->
                          /\ _freecad_connection' = [conn EXCEPT !.pinged = TRUE]
                          /\ tool_calls' = Append(tool_calls,
                                 [raised |-> FALSE, ping |-> answer,
                                  ret |-> [conn EXCEPT !.pinged = TRUE]])
                     [] answer = "False" ->
                          /\ _freecad_connection' = NoneV
                          /\ tool_calls' = Append(tool_calls,
                                 [raised |-> TRUE, ping |-> answer, ret |-> NoneV])
                     [] answer = "raises" ->
                          /\ _freecad_connection' = conn
                          /\ tool_calls' = Append(tool_calls,
                                 [raised |-> TRUE, ping |-> answer, ret |-> NoneV])
       ELSE /\ tool_calls' = Append(tool_calls,
                   [raised |-> FALSE, ping |-> "none", ret |-> _freecad_connection])
            /\ UNCHANGED _freecad_connection
    /\ UNCHANGED <<rpc_server_instance, rpc_server_thread, shutdown_request,
                   rpc_request_queue, rpc_response_queue, calls, polls, gui,
                   gui_msg, docs, active, getDocumentRaises, submit_log, run_log,
                   faults, last, parts_lib_path, get_parts_list_cache, pure_call>>

\* the tool layer asking for its connection while the addon's server is
\* started and stopped
ToolNext ==
    \/ get_freecad_connection
    \/ start_rpc_server
    \/ stop_rpc_server
    \/ stop_rpc_server_return
    \/ serve_forever_exit
    \/ \E k \in DOMAIN polls : process_gui_tasks_fire(k)
    \/ \E k \in DOMAIN polls : process_gui_tasks_check(k)

ToolSpec == Init /\ [][ToolNext]_vars

TypeOK ==
    /\ rpc_server_thread \in {"none", "serving"}
    /\ gui \in {"idle", "stopping"}
    /\ Len(calls) <= MaxCalls
    /\ Len(polls) <= MaxStarts

\* ------------------------------------------------------------------ helpers
IsPrefix(a, b) == Len(a) <= Len(b) /\ \A p \in 1..Len(a) : a[p] = b[p]
Count(seq, x) == Cardinality({p \in 1..Len(seq) : seq[p] = x})

\* polls that hold a dequeued task whose body has not finished
Executing == {k \in DOMAIN polls : polls[k].pc = "exec"}
\* polls whose callback is running
InCallback == {k \in DOMAIN polls : polls[k].pc \in {"check", "exec"}}

\* results published for task i: still on the response queue or taken by a call
PublishedFor(i) ==
    Count([p \in 1..Len(rpc_response_queue) |-> rpc_response_queue[p].id], i)
    + Cardinality({j \in DOMAIN calls : calls[j].got.id = i})

\* ------------------------------------------------------------------- claims
\* C1: task bodies run in the order the tasks were put on the request queue:
\* the run log is always a prefix of the submission log.
C1_SubmissionOrder == IsPrefix(run_log, submit_log)

C1_Witness == Len(run_log) = 3 /\ run_log = submit_log

\* C2: at most one task is executing, whatever documents the tasks name and
\* however often the server was started and stopped: while a task body runs,
\* no other poll callback and no start/stop command is running.
C2_OneTaskAtATime ==
    /\ Cardinality(Executing) <= 1
    /\ Executing # {} => (InCallback = Executing /\ gui = "idle")

C2_Witness ==
    /\ Len(polls) = 2
    /\ \E k \in DOMAIN polls : polls[k].pc = "exec" /\ polls[k].task.req.doc = "Doc1"
    /\ "Doc" \in DOMAIN docs

\* C3: the value a mutating call takes from the response queue is the result
\* of the task this call enqueued.
C3_OwnResult ==
    \A i \in DOMAIN calls :
        (calls[i].pc = "done" /\ calls[i].got.id # 0) =>
            /\ calls[i].got.id = i
            /\ (last.id = i /\ i = Len(calls)) =>
                   calls[i].got.res = Published(last.out).res

C3_Witness ==
    /\ Len(calls) = 2
    /\ calls[2].pc = "done"
    /\ calls[2].got.id = 2
    /\ calls[1].got.id = 1

\* C4: a task put on the request queue is executed at most once and, once
\* executed, has exactly one result published for it, whether its body
\* returned or raised; a caller that returned had its task executed once.
C4_ExactlyOnce ==
    \A i \in 1..Len(calls) :
        /\ Count(run_log, i) <= 1
        /\ Count(submit_log, i) <= 1
        /\ Count(run_log, i) = 1 => Count(submit_log, i) = 1
        /\ PublishedFor(i) = Count(run_log, i)
        /\ (calls[i].pc = "done" /\ Count(submit_log, i) = 1) => Count(run_log, i) = 1

C4_Witness ==
    /\ faults # {}
    /\ \E i \in faults : PublishedFor(i) = 1 /\ calls[i].pc = "done"
    /\ \E j \in DOMAIN calls : j \notin faults /\ calls[j].pc = "done" /\ PublishedFor(j) = 1

\* C5: a task that raises does not stop the worker loop: its fault is
\* published as the error result of that task, no poll chain ends, and a task
\* submitted after it is executed and its caller takes that task's result.
C5_FaultContained ==
    /\ \A k \in DOMAIN polls : polls[k].pc # "dead"
    /\ (last.id # 0 /\ last.out.raised) =>
          LET err == [id |-> last.id,
                      res |-> ErrRes("Unhandled exception in GUI task", last.out.exc)]
          IN  \/ \E p \in 1..Len(rpc_response_queue) : rpc_response_queue[p] = err
              \/ calls[last.id].got = err
    /\ \A i \in faults : \A j \in DOMAIN calls :
          (j > i /\ calls[j].pc = "done" /\ Count(submit_log, j) = 1) =>
              (Count(run_log, j) = 1 /\ calls[j].got.id = j)

C5_Witness ==
    /\ 1 \in faults
    /\ Len(calls) = 2
    /\ calls[2].pc = "done"
    /\ calls[2].reply.success
    /\ calls[2].got.id = 2

\* C6: documents, objects, the active document and the camera change only in
\* a step in which the owning context finishes the body of a dequeued task,
\* and they change to what that body computes.
C6_OnlyOwnerMutates ==
    [][(docs' # docs \/ active' # active) =>
          \E k \in DOMAIN polls :
              /\ polls[k].pc = "exec"
              /\ polls'[k].pc # "exec"
              /\ docs' = TaskBody(docs, active, polls[k].task.req).docs
              /\ active' = TaskBody(docs, active, polls[k].task.req).active]_vars

C6_Witness ==
    /\ last.id # 0
    /\ last.req.op = "insert_part_from_library"
    /\ last.before # docs

\* the GUI thread is inside stop_rpc_server, waiting in shutdown() for a
\* server thread that waits for a result: the owning context polls no more
StopBlocked ==
    /\ gui = "stopping"
    /\ rpc_response_queue = <<>>
    /\ \E i \in DOMAIN calls : calls[i].pc = "waiting"

\* C7: while the owning context keeps running its poll, every call that
\* waits for the result of its task eventually takes a result and returns.
C7_EventuallyAnswered ==
    \A i \in 1..MaxCalls :
        (i \in DOMAIN calls /\ calls[i].pc = "waiting")
            ~> ((i \in DOMAIN calls /\ calls[i].pc = "done") \/ StopBlocked)

C7_Witness ==
    /\ Len(calls) = MaxCalls
    /\ calls[MaxCalls].pc = "done"
    /\ calls[MaxCalls].got.id = MaxCalls
    /\ Len(polls) = 2

\* ------------------------------------------------- claims on the task bodies
\* the body that ran last and whose caller has not been followed by another
Ran(op) == last.id # 0 /\ last.req.op = op
LastRes == Published(last.out).res
Failed(kind, who) == LastRes.val = "error" /\ LastRes.kind = kind /\ LastRes.who = who
ObjectNames(ds) == [d \in DOMAIN ds |-> DOMAIN ds[d].objs]

\* the requested properties set a reference slot to a name that is no object
\* of the document
DanglingRef(ds, req) ==
    \E p \in 1..Len(req.props) :
        /\ req.props[p][1] \in RefSlots
        /\ req.props[p][2].kind = "str"
        /\ req.props[p][2].s \notin
              DOMAIN ds[req.doc].objs
              \cup {UniqueName(req.name, ObjNameSeq, DOMAIN ds[req.doc].objs)}

\* C8: create_object with Base, Tool, Source or Profile naming an object that
\* does not exist returns a reference-not-found failure and leaves the
\* documents' object sets as they were before the call.
C8_NoObjectLeftBehind ==
    (/\ Ran("create_object")
     /\ last.req.doc \in DOMAIN last.before
     /\ DanglingRef(last.before, last.req)) =>
        /\ LastRes.val = "error"
        /\ LastRes.kind = "ReferenceNotFound"
        /\ ObjectNames(docs) = ObjectNames(last.before)

\* C9: edit_object on a document that does not exist fails naming the
\* document, edit_object on a missing object of an existing document fails
\* naming the object, and neither changes any document or object.
C9_EditNotFound ==
    Ran("edit_object") =>
        /\ last.req.doc \notin DOMAIN last.before =>
              /\ Failed("UnknownDocument", last.req.doc)
                    \/ Failed("DocumentNotFound", last.req.doc)
              /\ docs = last.before
        /\ (/\ last.req.doc \in DOMAIN last.before
            /\ last.req.name \notin DOMAIN last.before[last.req.doc].objs) =>
              /\ Failed("ObjectNotFound", last.req.name)
              /\ docs = last.before

C9_Witness ==
    /\ Ran("edit_object")
    /\ last.req.doc \in DOMAIN last.before
    /\ last.req.name \notin DOMAIN last.before[last.req.doc].objs
    /\ DOMAIN last.before[last.req.doc].objs # {}
    /\ calls[last.id].pc = "done"
    /\ ~calls[last.id].reply.success

\* the object set_object_property was applied to by the body that ran last,
\* and the object table it started from
AppliedTo ==
    IF last.req.op = "create_object"
    THEN UniqueName(last.req.name, ObjNameSeq, DOMAIN last.before[last.req.doc].objs)
    ELSE last.req.name
AppliedFrom ==
    IF last.req.op = "create_object"
    THEN AddObject(last.before[last.req.doc].objs, last.req.type, AppliedTo)
    ELSE last.before[last.req.doc].objs
AppliedBatch ==
    /\ last.id # 0
    /\ last.req.op \in {"create_object", "edit_object"}
    /\ last.req.doc \in DOMAIN last.before
    /\ last.req.op = "create_object" => last.req.type \in KnownTypes
    /\ last.req.op = "edit_object" => last.req.name \in DOMAIN last.before[last.req.doc].objs
FailsAt(p) ==
    ApplyProperty(AppliedFrom, AppliedTo, last.req.props[p][1], last.req.props[p][2]).exc # NoExc
AppliedAt(p) ==
    LET prop == last.req.props[p][1]
    IN  docs[last.req.doc].objs[AppliedTo].props[prop] =
            ApplyProperty(AppliedFrom, AppliedTo, prop,
                          last.req.props[p][2]).objs[AppliedTo].props[prop]
UntouchedAt(p) ==
    LET prop == last.req.props[p][1]
    IN  prop \in DOMAIN AppliedFrom[AppliedTo].props =>
            docs[last.req.doc].objs[AppliedTo].props[prop] = AppliedFrom[AppliedTo].props[prop]

\* C10 as claimed: a failing assignment does not stop the batch, every
\* property after it that the object accepts is still applied.
C10_BatchContinues ==
    AppliedBatch =>
        \A p \in 1..Len(last.req.props) : \A q \in 1..Len(last.req.props) :
            (p < q /\ FailsAt(p) /\ ~FailsAt(q)) => AppliedAt(q)

\* C10 amended: the first failing assignment ends the batch: the failure names
\* that property, the properties before it are applied and none after it is.
C10_BatchStopsAtFirstFailure ==
    AppliedBatch =>
        \A p \in 1..Len(last.req.props) :
            (FailsAt(p) /\ \A o \in 1..(p - 1) : ~FailsAt(o)) =>
                /\ LastRes.val = "error"
                /\ LastRes.prop = last.req.props[p][1]
                /\ \A o \in 1..(p - 1) : AppliedAt(o)
                /\ \A q \in (p + 1)..Len(last.req.props) : UntouchedAt(q)

C10_Witness ==
    /\ AppliedBatch
    /\ last.req.op = "edit_object"
    /\ Len(last.req.props) = 2
    /\ FailsAt(1)
    /\ ~FailsAt(2)
    /\ UntouchedAt(2)
    /\ ~AppliedAt(2)

\* ------------------------------------------------ claims on missing targets
NamesNoDocument(ds, req) == req.doc \notin DOMAIN ds
NamesNoObject(ds, req) ==
    req.doc \in DOMAIN ds /\ req.name \notin DOMAIN ds[req.doc].objs

\* the task that ran last was a delete_object or create_object on a document
\* that did not exist, or a delete_object on an object that did not exist
NotFoundTask ==
    /\ last.id # 0
    /\ \/ /\ last.req.op \in {"delete_object", "create_object"}
          /\ NamesNoDocument(last.before, last.req)
       \/ /\ last.req.op = "delete_object"
          /\ NamesNoObject(last.before, last.req)

\* call c is a get_objects or get_object that named a document that does not
\* exist, or a get_object that named an object that does not exist
NotFoundQuery(c) ==
    /\ c.pc = "done"
    /\ \/ /\ c.req.op \in {"get_objects", "get_object"}
          /\ NamesNoDocument(docs, c.req)
       \/ /\ c.req.op = "get_object"
          /\ NamesNoObject(docs, c.req)

\* the step in which the server thread answers a get_objects or get_object
QueryStep ==
    /\ Len(calls') = Len(calls) + 1
    /\ calls'[Len(calls')].req.op \in {"get_objects", "get_object"}

\* C11: delete_object, create_object, get_object and get_objects on a
\* document that does not exist, and delete_object and get_object on an object
\* that does not exist, return a failure; no poll chain dies of it, the server
\* thread goes on serving and no document's object set changes.
C11_NotFoundFails ==
    /\ [](/\ \A k \in DOMAIN polls : polls[k].pc # "dead"
          /\ NotFoundTask =>
                /\ LastRes.val = "error"
                /\ ObjectNames(docs) = ObjectNames(last.before)
                /\ calls[last.id].pc = "done" => IsFailure(calls[last.id].reply)
          /\ \A i \in DOMAIN calls :
                NotFoundQuery(calls[i]) => IsFailure(calls[i].reply))
    /\ [][QueryStep => UNCHANGED <<docs, polls, rpc_server_thread>>]_vars

C11_Witness ==
    \E i \in DOMAIN calls :
        /\ NotFoundQuery(calls[i])
        /\ calls[i].req.op = "get_object"
        /\ NamesNoObject(docs, calls[i].req)
        /\ IsFailure(calls[i].reply)

\* ------------------------------------------------------ claims on the codec
\* C12: a Placement encoded by serialize_value and applied back as the
\* Placement property, its position under Base or under Position, gives a
\* Placement with the same position, the same rotation axis and the same
\* rotation angle.
C12_PlacementRoundTrip ==
    pure_call.fn = "round_trip" =>
        /\ pure_call.ret.kind = "placement"
        /\ pure_call.ret.Base = pure_call.arg.value.Base
        /\ Axis(pure_call.ret.Rotation) = Axis(pure_call.arg.value.Rotation)
        /\ Angle(pure_call.ret.Rotation) = Angle(pure_call.arg.value.Rotation)

\* C13: a mapping applied to a property that holds a vector sets x, y and z
\* to the supplied numbers and to 0 where the key is missing, whatever the
\* vector was: {} gives (0, 0, 0) and {z: 5} gives (0, 0, 5).
C13_VectorDefaultsToZero ==
    pure_call.fn = "vector" =>
        LET m == pure_call.arg.mapping.m
            coord(k) == IF k \in DOMAIN m THEN m[k].n ELSE 0
        IN  pure_call.ret = Vector(coord("x"), coord("y"), coord("z"))

C13_Witness ==
    /\ pure_call.fn = "vector"
    /\ pure_call.arg.current = Vector(1, 2, 3)
    /\ pure_call.arg.mapping = Dict([k \in {"z"} |-> Num(5)])
    /\ pure_call.ret = Vector(0, 0, 5)

\* what XML-RPC can carry: numbers, strings, booleans, and mappings and
\* lists of them
RECURSIVE IsWire(_)
IsWire(v) ==
    CASE v.kind \in {"num", "str", "bool"} -> TRUE
      [] v.kind = "dict" -> \A k \in DOMAIN v.m : IsWire(v.m[k])
      [] v.kind = "list" -> \A i \in DOMAIN v.items : IsWire(v.items[i])
      [] OTHER -> FALSE

\* C14: serialize_value gives a transportable value for every native value: a
\* number, string or boolean is passed through, a vector becomes its x, y, z
\* mapping, a rotation its Axis and Angle, a placement its Base and Rotation,
\* a sequence the sequence of its encoded elements, a color its four
\* components, and any other value its string form.
C14_EncodingTotal ==
    pure_call.fn = "serialize_value" =>
        LET v == pure_call.arg.value
            r == pure_call.ret
        IN  /\ IsWire(r)
            /\ CASE v.kind \in {"num", "str", "bool"} -> r = v
                 [] v.kind = "vector" ->
                        r.kind = "dict" /\ DOMAIN r.m = {"x", "y", "z"}
                 [] v.kind = "rotation" ->
                        /\ r.kind = "dict" /\ DOMAIN r.m = {"Axis", "Angle"}
                        /\ DOMAIN r.m["Axis"].m = {"x", "y", "z"}
                        /\ r.m["Angle"].kind = "num"
                 [] v.kind = "placement" ->
                        /\ r.kind = "dict" /\ DOMAIN r.m = {"Base", "Rotation"}
                        /\ DOMAIN r.m["Base"].m = {"x", "y", "z"}
                        /\ DOMAIN r.m["Rotation"].m = {"Axis", "Angle"}
                 [] v.kind = "list" ->
                        r.kind = "list" /\ Len(r.items) = Len(v.items)
                 [] v.kind = "color" ->
                        /\ r.kind = "list" /\ Len(r.items) = 4
                        /\ \A i \in 1..4 : r.items[i].kind = "num"
                 [] OTHER -> r.kind = "str"

C14_Witness ==
    /\ pure_call.fn = "serialize_value"
    /\ pure_call.arg.value = List(<<Num(1), Vector(0, 0, 1), NoneV>>)
    /\ pure_call.ret = List(<<Num(1), XYZ(0, 0, 1), Str("None")>>)

\* ------------------------------------------------- claims on read after write
\* call i is a get_object that follows, with no call in between, a create_object
\* or edit_object that succeeded, and names the object that call wrote
ReadsLastWrite(i) ==
    /\ calls[i].pc = "done"
    /\ calls[i].req.op = "get_object"
    /\ last.id = i - 1
    /\ AppliedBatch
    /\ LastRes = TrueRes
    /\ calls[i].req.doc = last.req.doc
    /\ calls[i].req.name = AppliedTo

\* entry p of the written mapping gives a declared property a number or a
\* string, or gives Placement a mapping, and no later entry writes it again
ScalarOrPlacement(p) ==
    LET prop == last.req.props[p][1]
        val  == last.req.props[p][2]
    IN  /\ prop \in PropertiesList(AppliedFrom[AppliedTo])
        /\ \/ val.kind \in {"num", "str"} /\ prop \notin RefSlots
           \/ prop = "Placement" /\ IsDict(val)
        /\ \A q \in (p + 1)..Len(last.req.props) : last.req.props[q][1] # prop

\* C15: after a successful create_object or edit_object that sets a declared
\* property p of an object to v, a number, a string or a Placement mapping,
\* the next get_object of that object reports p with the value v.
C15_ReadYourWrite ==
    \A i \in DOMAIN calls :
        ReadsLastWrite(i) =>
            /\ ~IsFailure(calls[i].reply)
            /\ \A p \in 1..Len(last.req.props) :
                  ScalarOrPlacement(p) =>
                      calls[i].reply.value.Properties[last.req.props[p][1]]
                          = last.req.props[p][2]

\* ------------------------------------------------ claims on the parts list
IsFault(reply) == "fault" \in DOMAIN reply

\* C16: once a get_parts_list has returned a list, every get_parts_list
\* returns that list, whatever is added to or removed from the library
\* directory in between.
C16_PartsListFrozen ==
    /\ [](\A i \in DOMAIN calls :
            (/\ calls[i].pc = "done"
             /\ calls[i].req.op = "get_parts_list"
             /\ ~IsFault(calls[i].reply)) =>
                /\ get_parts_list_cache.hit
                /\ calls[i].reply = Bare(get_parts_list_cache.parts))
    /\ [][get_parts_list_cache.hit =>
             /\ get_parts_list_cache'.hit
             /\ get_parts_list_cache'.parts = get_parts_list_cache.parts]_vars

C16_Witness ==
    /\ get_parts_list_cache.hits >= 1
    /\ calls[Len(calls)].req.op = "get_parts_list"
    /\ calls[Len(calls)].reply = Bare({"box.FCStd"})
    /\ parts_lib_path.files = {"nut.FCStd", "notes.txt"}

\* ---------------------------------------------------- claims on execute_code
\* C17: execute_code answers a snippet that completes with a success envelope
\* whose message holds what the snippet wrote to standard output, and a
\* snippet that raises with a failure envelope that carries the error text;
\* the poll that ran the snippet goes on.
C17_ScriptEnvelope ==
    \A i \in DOMAIN calls :
        (calls[i].pc = "done" /\ calls[i].req.op = "execute_code") =>
            IF calls[i].req.arg \in {"raise", "print_raise"}
            THEN /\ IsFailure(calls[i].reply)
                 /\ calls[i].reply.value.val = "error"
                 /\ calls[i].reply.value.kind = "ScriptError"
                 /\ i \notin faults
                 /\ \A k \in DOMAIN polls : polls[k].pc # "dead"
            ELSE /\ calls[i].reply.success
                 /\ calls[i].reply.out = Stdout(calls[i].req)

C17_Witness ==
    \E i \in DOMAIN calls :
        /\ calls[i].pc = "done"
        /\ calls[i].req.op = "execute_code"
        /\ calls[i].req.arg = "print"
        /\ calls[i].reply.success
        /\ calls[i].reply.out = "hi"

\* ------------------------------------------------ claims on object creation
\* a create_object ran on an existing document
Created == Ran("create_object") /\ last.req.doc \in DOMAIN last.before
ObjsBefore == last.before[last.req.doc].objs
ObjsAfter == docs[last.req.doc].objs

\* the mesh type was asked for under an analysis of the document, and Part is
\* missing or names no object of the document
MeshWithoutPart ==
    /\ Created
    /\ last.req.type = MeshType
    /\ IsAnalysis(ObjsBefore, last.req.arg)
    /\ \/ ~HasKey(last.req.props, "Part")
       \/ Lookup(last.req.props, "Part").s \notin
              DOMAIN ObjsBefore
              \cup {UniqueName(last.req.name, NameSeq(last.req.name), DOMAIN ObjsBefore)}

\* C18: when the creation of a mesh object under an analysis fails because
\* Part is absent or names an object that does not exist, the call returns a
\* failure and no mesh object is left in the document or under the analysis.
C18_NoMeshLeftBehind ==
    MeshWithoutPart =>
        /\ LastRes.val = "error"
        /\ ObjectNames(docs) = ObjectNames(last.before)
        /\ ObjsAfter[last.req.arg].props["Group"]
              = ObjsBefore[last.req.arg].props["Group"]

Printed(msg) == "console" \in DOMAIN last.out /\ last.out.console = msg
FailedAs(kinds) == LastRes.val = "error" /\ LastRes.kind \in kinds

\* C19: creation takes the mesh path exactly when the type is the mesh type
\* and an analysis is given; otherwise the constructor path exactly when the
\* type is of the Fem family, failing with an unknown constructor when the
\* suffix has none (as for the mesh type without an analysis); otherwise the
\* add-object path.
C19_CreationDispatch ==
    Created =>
        LET mesh == last.req.type = MeshType /\ last.req.arg # NoAnalysis
            fem  == last.req.type \in FemFamily
        IN  /\ mesh =>
                  \/ LastRes = TrueRes /\ Printed("FEM Mesh generated")
                  \/ FailedAs({"AttributeError", "MissingField", "ReferenceNotFound",
                               "PropertyAssignError"})
            /\ (~mesh /\ fem /\ last.req.type \in FemConstructors) =>
                  \/ LastRes = TrueRes /\ Printed("FEM object created")
                  \/ FailedAs({"AttributeError", "ReferenceNotFound",
                               "PropertyAssignError"})
            /\ (~mesh /\ fem /\ last.req.type \notin FemConstructors) =>
                  /\ Failed("UnknownConstructor", last.req.type)
                  /\ docs = last.before
            /\ (~mesh /\ ~fem) =>
                  \/ LastRes = TrueRes /\ Printed("added via RPC")
                  \/ FailedAs({"CreationError", "ReferenceNotFound",
                               "PropertyAssignError"})

C19_Witness ==
    /\ Created
    /\ last.req.type = MeshType
    /\ last.req.arg = NoAnalysis
    /\ HasKey(last.req.props, "Part")
    /\ Lookup(last.req.props, "Part").s \in DOMAIN ObjsBefore
    /\ Failed("UnknownConstructor", MeshType)

\* ------------------------------------------------------- claims on References
\* an edit_object ran on an object with a References slot, with References
\* in the request
ReferencesEdit ==
    /\ Ran("edit_object")
    /\ last.req.doc \in DOMAIN last.before
    /\ last.req.name \in DOMAIN ObjsBefore
    /\ "References" \in PropertiesList(ObjsBefore[last.req.name])
    /\ HasKey(last.req.props, "References")

\* C20: in an edit of an object with a References slot, References is
\* resolved and assigned before every other property of the request, wherever
\* it stands in the mapping, and is not written again by the loop over the
\* other properties; when a referenced name is no object, the edit fails and
\* no other property is applied.
C20_ReferencesFirst ==
    ReferencesEdit =>
        LET val == Lookup(last.req.props, "References")
        IN  IF Unresolved(ObjsBefore, val) # {}
            THEN /\ Failed("ReferenceNotFound", FirstUnresolved(ObjsBefore, val))
                 /\ docs = last.before
            ELSE /\ ObjsAfter[last.req.name].props["References"] = ResolveRefs(val)
                 /\ LastRes.val = "error" => LastRes.prop # "References"

C20_Witness ==
    /\ ReferencesEdit
    /\ last.req.props[1][1] = "Scale"
    /\ LastRes.val = "error"
    /\ LastRes.prop = "Scale"
    /\ ObjsAfter[last.req.name].props["References"] = ResolveRefs(OneRef("Box"))

\* ------------------------------------------- claims on the display properties
\* entry p of the request that ran last names ShapeColor with a list or
\* ViewObject with a mapping, and the object declares no such property
ViewEntry(p) ==
    LET prop == last.req.props[p][1]
        val  == last.req.props[p][2]
    IN  /\ prop \notin PropertiesList(ObjsBefore[last.req.name])
        /\ \/ prop = "ShapeColor" /\ val.kind = "list"
           \/ prop = "ViewObject" /\ val.kind = "dict"

\* the display property k reads as the request wrote it: a colour component
\* by component, anything else as the value itself
ReadsAs(view, k, v) ==
    IF k = "ShapeColor"
    THEN /\ view[k].kind = "color"
         /\ \A i \in DOMAIN v.items :
               view[k].rgba[i] = (CASE v.items[i] = Bool(TRUE)  -> 100
                                    [] v.items[i] = Bool(FALSE) -> 0
                                    [] OTHER -> v.items[i].n)
    ELSE view[k] = v

ViewEdit ==
    /\ Ran("edit_object")
    /\ last.req.doc \in DOMAIN last.before
    /\ last.req.name \in DOMAIN ObjsBefore

\* C21: an entry of the request that names ShapeColor (with a list) or
\* ViewObject (with a mapping) on an object that declares no such property
\* changes no data property: the object has the data properties it had, every
\* one that no other entry names holds the value it held, and no other object
\* is changed; when the call succeeds the view provider holds what the entry
\* wrote.
C21_ViewOnly ==
    ViewEdit =>
        \A p \in 1..Len(last.req.props) :
            ViewEntry(p) =>
                LET before == ObjsBefore[last.req.name]
                    after  == ObjsAfter[last.req.name]
                    prop   == last.req.props[p][1]
                    val    == last.req.props[p][2]
                    others == {last.req.props[q][1] :
                                  q \in 1..Len(last.req.props) \ {p}}
                IN  /\ DOMAIN ObjsAfter = DOMAIN ObjsBefore
                    /\ \A n \in DOMAIN ObjsBefore \ {last.req.name} :
                          ObjsAfter[n] = ObjsBefore[n]
                    /\ DOMAIN after.props = DOMAIN before.props
                    /\ \A d \in DOMAIN before.props \ others :
                          after.props[d] = before.props[d]
                    /\ LastRes = TrueRes =>
                          IF prop = "ShapeColor"
                          THEN ReadsAs(after.ViewObject, "ShapeColor", val)
                          ELSE \A i \in DOMAIN val.keys :
                                  ReadsAs(after.ViewObject, val.keys[i][1],
                                          val.keys[i][2])

C21_Witness ==
    /\ ViewEdit
    /\ Len(last.req.props) = 1
    /\ ViewEntry(1)
    /\ LastRes = TrueRes
    /\ ObjsAfter[last.req.name].ViewObject # ObjsBefore[last.req.name].ViewObject
    /\ ObjsAfter[last.req.name].props = ObjsBefore[last.req.name].props

\* ------------------------------------------------- claims on missing fields
\* the handler of create_object was entered in this step with obj_data that
\* has no Type
NoTypeCall ==
    /\ Len(calls') = Len(calls) + 1
    /\ calls'[Len(calls')].req.op = "create_object"
    /\ calls'[Len(calls')].req.type = NoType

\* C22: create_object with obj_data that has no Type returns a failure that
\* names the missing field in the step that enters the handler: no task is
\* queued, and the request queue, the response queue and the documents are as
\* they were.
C22_MissingTypeAnsweredAtOnce ==
    [][NoTypeCall =>
          /\ calls'[Len(calls')].pc = "done"
          /\ ~calls'[Len(calls')].reply.success
          /\ calls'[Len(calls')].reply.value.val = "error"
          /\ calls'[Len(calls')].reply.value.kind = "MissingField"
          /\ calls'[Len(calls')].reply.value.who = "Type"
          /\ UNCHANGED <<rpc_request_queue, rpc_response_queue, docs, active,
                         submit_log>>]_vars

C22_Witness ==
    /\ calls # <<>>
    /\ calls[Len(calls)].req.op = "create_object"
    /\ calls[Len(calls)].req.type = NoType
    /\ calls[Len(calls)].pc = "done"
    /\ ~calls[Len(calls)].reply.success
    /\ DOMAIN docs # {}
    /\ rpc_request_queue = <<>>

\* ------------------------------------------------------ claims on stopping
\* C23: stop_rpc_server always returns: no state is reached in which the
\* owning context is inside stop_rpc_server, waiting for serve_forever to
\* leave its loop, while the handler serve_forever is in waits for a result
\* that only the owning context can produce.
C23_StopNeverBlocked ==
    ~(/\ gui = "stopping"
      /\ rpc_server_thread = "serving"
      /\ rpc_response_queue = <<>>
      /\ \E i \in DOMAIN calls : calls[i].pc = "waiting")

\* C24: after any sequence of start_rpc_server and stop_rpc_server at most
\* one chain of process_gui_tasks timers is alive (armed or running), and at
\* most one server and one server thread exist.
C24_OnePollChain ==
    /\ Cardinality({k \in DOMAIN polls : polls[k].pc \in {"armed", "check", "exec"}}) <= 1
    /\ rpc_server_thread = "serving" => rpc_server_instance

\* ------------------------------------------------- claims on failed edits
\* C25: an edit_object that returns a failure leaves the object it names as
\* it was before the call: no property of the request, References included,
\* stays applied when a later property of the request fails.
C25_FailedEditChangesNothing ==
    (/\ Ran("edit_object")
     /\ last.req.doc \in DOMAIN last.before
     /\ last.req.name \in DOMAIN ObjsBefore
     /\ LastRes.val = "error") =>
        ObjsAfter[last.req.name] = ObjsBefore[last.req.name]

\* ------------------------------------------------- claims on the tool layer
\* C26: across any sequence of get_freecad_connection calls, a call returns
\* a connection only if a ping on that connection has succeeded, and a call
\* whose liveness check fails (the ping answers False or raises) leaves the
\* global connection unset, so that the next call pings again.
C26_PingedOrUnset ==
    /\ \A i \in DOMAIN tool_calls :
          ~tool_calls[i].raised => tool_calls[i].ret.pinged
    /\ (tool_calls # <<>> /\ tool_calls[Len(tool_calls)].raised) =>
          _freecad_connection = NoneV
====
